---- MODULE Spec2Model ----
(***************************************************************************)
(* A model of the MMDB lookup demo (iv-stpn/mmdb-lookup-demo):            *)
(*   mmdb.ts  - createMMDBContext, loadDataset, lookupIP, findCIDRBlock,   *)
(*              findIPv4CIDRBlock, findIPv6CIDRBlock, isValidIP,           *)
(*              transformResult and the type guards;                       *)
(*   the Reader of mmdb-lib, which mmdb.ts calls, modelled from the        *)
(*   search-tree contract of the specification (section 4.3).              *)
(* IP literals are strings, as in the program; 32-bit values are JavaScript*)
(* int32 values (-2^31 .. 2^31-1) and the bitwise operators work on their  *)
(* two's complement bits.                                                  *)
(***************************************************************************)
EXTENDS Integers, Sequences, FiniteSets, TLC

VARIABLES
  context,    \* the MMDBContext the caller holds: [dataset, reader]
  loaded,     \* the context as loadDataset returned it (history)
  calls,      \* the lookup calls: the position and locals of each
  nLookups,   \* lookups completed on this context (history)
  nFailed,    \* ... of which ended in an error or met a raising reader
  view,       \* the latest evaluation of a function on a value of its own
  app         \* the state of the App component and the loads in flight

vars == <<context, loaded, calls, nLookups, nFailed, view, app>>

-----------------------------------------------------------------------------
(* Strings                                                                 *)

Ch(s, i) == SubSeq(s, i, i)

Digits == {"0", "1", "2", "3", "4", "5", "6", "7", "8", "9"}

HexDigits == Digits \cup {"a", "b", "c", "d", "e", "f", "A", "B", "C", "D", "E", "F"}

Letters ==
  {"a", "b", "c", "d", "e", "f", "g", "h", "i", "j", "k", "l", "m", "n", "o", "p",
   "q", "r", "s", "t", "u", "v", "w", "x", "y", "z", "A", "B", "C", "D", "E", "F",
   "G", "H", "I", "J", "K", "L", "M", "N", "O", "P", "Q", "R", "S", "T", "U", "V",
   "W", "X", "Y", "Z"}

AlphaNum == Digits \cup Letters

\* String.prototype.includes for a one-character needle
Includes(s, c) == \E i \in 1..Len(s) : Ch(s, i) = c

\* Position of the first c in s at or after i, or Len(s)+1
RECURSIVE IndexFrom(_, _, _)
IndexFrom(s, c, i) ==
  IF i > Len(s) THEN Len(s) + 1
  ELSE IF Ch(s, i) = c THEN i
  ELSE IndexFrom(s, c, i + 1)

\* String.prototype.split for a one-character separator
RECURSIVE SplitFrom(_, _, _)
SplitFrom(s, c, i) ==
  LET j == IndexFrom(s, c, i)
  IN  IF j > Len(s) THEN <<SubSeq(s, i, Len(s))>>
      ELSE <<SubSeq(s, i, j - 1)>> \o SplitFrom(s, c, j + 1)

Split(s, c) == SplitFrom(s, c, 1)

\* Array.prototype.join
RECURSIVE Join(_, _)
Join(parts, sep) ==
  IF Len(parts) = 0 THEN ""
  ELSE IF Len(parts) = 1 THEN parts[1]
  ELSE parts[1] \o sep \o Join(Tail(parts), sep)

\* Array.prototype.slice(0, n)
Slice0(parts, n) == SubSeq(parts, 1, IF n < Len(parts) THEN n ELSE Len(parts))

DigitVal(c) ==
  CASE c = "0" -> 0 [] c = "1" -> 1 [] c = "2" -> 2 [] c = "3" -> 3
    [] c = "4" -> 4 [] c = "5" -> 5 [] c = "6" -> 6 [] c = "7" -> 7
    [] c = "8" -> 8 [] c = "9" -> 9
    [] c \in {"a", "A"} -> 10 [] c \in {"b", "B"} -> 11
    [] c \in {"c", "C"} -> 12 [] c \in {"d", "D"} -> 13
    [] c \in {"e", "E"} -> 14 [] c \in {"f", "F"} -> 15

AllIn(s, set) == \A i \in 1..Len(s) : Ch(s, i) \in set

RECURSIVE RadixVal(_, _, _)
RadixVal(s, radix, acc) ==
  IF Len(s) = 0 THEN acc
  ELSE RadixVal(Tail(s), radix, acc * radix + DigitVal(Head(s)))

\* String(n) for a number 0..255, as join(".") formats an octet
NumToString(n) == ToString(n)

-----------------------------------------------------------------------------
(* Regular expressions: Ends(re, s, i) is the set of positions j at which  *)
(* a match of re that starts at position i of s can end (j is the first    *)
(* position after the match).  re.test(s) for an anchored ^...$ pattern is *)
(* Len(s)+1 \in Ends(re, s, 1).                                            *)

RSet(S) == [t |-> "set", s |-> S]
RLit(c) == [t |-> "set", s |-> {c}]
RSeq(rs) == [t |-> "seq", rs |-> rs]
RAlt(rs) == [t |-> "alt", rs |-> rs]
RRep(r, lo, hi) == [t |-> "rep", r |-> r, lo |-> lo, hi |-> hi]
ROpt(r) == RRep(r, 0, 1)
Unbounded == -1

RECURSIVE Ends(_, _, _)
RECURSIVE EndsSeq(_, _, _, _)
RECURSIVE EndsRep(_, _, _, _, _)

\* A repeated character class, [..]{lo,hi}: every run of lo to hi characters
\* of the class from position i
EndsRun(re, s, i) ==
  {j \in (i + re.lo)..(Len(s) + 1) :
     /\ re.hi = Unbounded \/ j - i <= re.hi
     /\ \A k \in i..(j - 1) : Ch(s, k) \in re.r.s}

Ends(re, s, i) ==
  CASE re.t = "set" -> IF i <= Len(s) /\ Ch(s, i) \in re.s THEN {i + 1} ELSE {}
    [] re.t = "seq" -> EndsSeq(re.rs, 1, s, {i})
    [] re.t = "alt" -> UNION {Ends(re.rs[k], s, i) : k \in 1..Len(re.rs)}
    [] re.t = "rep" /\ re.r.t = "set" -> EndsRun(re, s, i)
    [] re.t = "rep" /\ re.r.t # "set" -> EndsRep(re, 0, s, {i}, {})

EndsSeq(rs, k, s, I) ==
  IF k > Len(rs) \/ I = {} THEN I
  ELSE EndsSeq(rs, k + 1, s, UNION {Ends(rs[k], s, i) : i \in I})

\* I: the positions reached after n repetitions; acc: the ends collected.
\* hi = Unbounded is {lo,}: every repeated pattern here consumes a character,
\* so I runs empty.
EndsRep(re, n, s, I, acc) ==
  LET got == IF n >= re.lo THEN acc \cup I ELSE acc
  IN  IF n = re.hi \/ I = {} THEN got
      ELSE EndsRep(re, n + 1, s, UNION {Ends(re.r, s, i) : i \in I}, got)

Test(re, s) == (Len(s) + 1) \in Ends(re, s, 1)

-----------------------------------------------------------------------------
(* isValidIP                                                               *)

D09 == RSet(Digits)
D05 == RSet({"0", "1", "2", "3", "4", "5"})
D04 == RSet({"0", "1", "2", "3", "4"})
D01 == RSet({"0", "1"})
Dot == RLit(".")
Colon == RLit(":")

\* A laxer octet, [0-9]{1,3}: any one to three digits
OctetAnyDigits == RRep(D09, 1, 3)

\* 25[0-5]|2[0-4][0-9]|[01]?[0-9][0-9]?
OctetV4 ==
  RAlt(<<RSeq(<<RLit("2"), RLit("5"), D05>>),
         RSeq(<<RLit("2"), D04, D09>>),
         RSeq(<<ROpt(D01), D09, ROpt(D09)>>)>>)

\* ^(?:(?:octet)\.){3}(?:octet)$
ipv4Regex == RSeq(<<RRep(RSeq(<<OctetV4, Dot>>), 3, 3), OctetV4>>)

\* [0-9a-fA-F]{1,4}
H14 == RRep(RSet(HexDigits), 1, 4)
\* [0-9a-fA-F]{1,4}:   and   :[0-9a-fA-F]{1,4}
HC == RSeq(<<H14, Colon>>)
CH == RSeq(<<Colon, H14>>)

\* (25[0-5]|(2[0-4]|1{0,1}[0-9]){0,1}[0-9])
OctetV6 ==
  RAlt(<<RSeq(<<RLit("2"), RLit("5"), D05>>),
         RSeq(<<ROpt(RAlt(<<RSeq(<<RLit("2"), D04>>),
                            RSeq(<<ROpt(RLit("1")), D09>>)>>)), D09>>)>>)

\* ((octet)\.){3,3}(octet)
DottedV6 == RSeq(<<RRep(RSeq(<<OctetV6, Dot>>), 3, 3), OctetV6>>)

\* The twelve alternatives of ipv6Regex, in the order of the source
ipv6Regex ==
  RAlt(<<RSeq(<<RRep(HC, 7, 7), H14>>),
         RSeq(<<RRep(HC, 1, 7), Colon>>),
         RSeq(<<RRep(HC, 1, 6), Colon, H14>>),
         RSeq(<<RRep(HC, 1, 5), RRep(CH, 1, 2)>>),
         RSeq(<<RRep(HC, 1, 4), RRep(CH, 1, 3)>>),
         RSeq(<<RRep(HC, 1, 3), RRep(CH, 1, 4)>>),
         RSeq(<<RRep(HC, 1, 2), RRep(CH, 1, 5)>>),
         RSeq(<<H14, Colon, RRep(CH, 1, 6)>>),
         RSeq(<<Colon, RAlt(<<RRep(CH, 1, 7), Colon>>)>>),
         RSeq(<<RLit("f"), RLit("e"), RLit("8"), RLit("0"), Colon,
                RRep(RSeq(<<Colon, RRep(RSet(HexDigits), 0, 4)>>), 0, 4),
                RLit("%"), RRep(RSet(AlphaNum), 1, Unbounded)>>),
         RSeq(<<Colon, Colon,
                ROpt(RSeq(<<RLit("f"), RLit("f"), RLit("f"), RLit("f"),
                            ROpt(RSeq(<<Colon, RRep(RLit("0"), 1, 4)>>)), Colon>>)),
                DottedV6>>),
         RSeq(<<RRep(HC, 1, 4), Colon, DottedV6>>)>>)

isValidIP(ip) == Test(ipv4Regex, ip) \/ Test(ipv6Regex, ip)

-----------------------------------------------------------------------------
(* JavaScript numbers and the 32-bit bitwise operators.  A number is       *)
(* [nan, v]; an int32 is an integer in -2^31 .. 2^31-1.                    *)

Num(v) == [nan |-> FALSE, v |-> v]
NumNaN == [nan |-> TRUE, v |-> 0]

\* Number(s) for the strings split(".") yields: a decimal numeral gives its
\* value, the empty string 0, anything else (a part holding ':') NaN.
Number(s) ==
  IF AllIn(s, Digits) THEN Num(RadixVal(s, 10, 0)) ELSE NumNaN

\* a + b on numbers
JSAdd(a, b) == IF a.nan \/ b.nan THEN NumNaN ELSE Num(a.v + b.v)

\* ToInt32 of a number that lies within the int32 range, or of NaN
ToInt32(a) == IF a.nan THEN 0 ELSE a.v

MaxInt32 == 2147483647

Pow2(n) == 2 ^ n

\* The low 31 bits and the sign bit of an int32, and back
Low31(x) == IF x >= 0 THEN x ELSE (x + MaxInt32) + 1
SignBit(x) == x < 0
FromParts(sign, low) == IF sign THEN (low - MaxInt32) - 1 ELSE low

\* Bitwise and, exclusive or of two naturals below 2^w: of their low halves
\* and of their high halves
RECURSIVE AndBits(_, _, _)
AndBits(a, b, w) ==
  IF a = 0 \/ b = 0 THEN 0
  ELSE IF w = 1 THEN a * b
  ELSE AndBits(a % Pow2(w \div 2), b % Pow2(w \div 2), w \div 2)
       + Pow2(w \div 2)
         * AndBits(a \div Pow2(w \div 2), b \div Pow2(w \div 2), w - (w \div 2))

RECURSIVE XorBits(_, _, _)
XorBits(a, b, w) ==
  IF a = 0 THEN b
  ELSE IF b = 0 THEN a
  ELSE IF w = 1 THEN (a + b) % 2
  ELSE XorBits(a % Pow2(w \div 2), b % Pow2(w \div 2), w \div 2)
       + Pow2(w \div 2)
         * XorBits(a \div Pow2(w \div 2), b \div Pow2(w \div 2), w - (w \div 2))

AndNat(a, b) == AndBits(a, b, 31)
XorNat(a, b) == XorBits(a, b, 31)

\* x & y
BitAnd(x, y) == FromParts(SignBit(x) /\ SignBit(y), AndNat(Low31(x), Low31(y)))

\* x ^ y
BitXor(x, y) == FromParts(SignBit(x) # SignBit(y), XorNat(Low31(x), Low31(y)))

\* x << n: the shift count is taken modulo 32
ShiftLeft(x, n) ==
  LET k == n % 32
  IN  IF k = 0 THEN x
      ELSE FromParts((Low31(x) \div Pow2(31 - k)) % 2 = 1,
                     IF k = 31 THEN 0 ELSE (Low31(x) % Pow2(31 - k)) * Pow2(k))

\* x >>> n for a shift count 1..31 (the result is below 2^31)
UShiftRight(x, n) ==
  LET k == n % 32
  IN  (IF k = 31 THEN 0 ELSE Low31(x) \div Pow2(k))
      + (IF SignBit(x) THEN Pow2(31 - k) ELSE 0)

-----------------------------------------------------------------------------
(* Decoded values (the Response of mmdb-lib): maps with ordered keys,      *)
(* numbers, strings, booleans.                                             *)

VNum(n) == [t |-> "num", n |-> n]
VStr(s) == [t |-> "str", s |-> s]
VBool(b) == [t |-> "bool", b |-> b]
VMap(kv) == [t |-> "map", kv |-> kv]

\* if (!result): null is handled by the caller; 0, "" and false are falsy
Truthy(v) ==
  CASE v.t = "num" -> v.n # 0
    [] v.t = "str" -> v.s # ""
    [] v.t = "bool" -> v.b
    [] OTHER -> TRUE

Quote(s) == "\"" \o s \o "\""

RECURSIVE JSONStringify(_)
RECURSIVE StringifyEntries(_)

JSONStringify(v) ==
  CASE v.t = "num" -> ToString(v.n)
    [] v.t = "str" -> Quote(v.s)
    [] v.t = "bool" -> IF v.b THEN "true" ELSE "false"
    [] v.t = "map" -> "{" \o StringifyEntries(v.kv) \o "}"

StringifyEntries(kv) ==
  IF Len(kv) = 0 THEN ""
  ELSE Quote(kv[1][1]) \o ":" \o JSONStringify(kv[1][2])
       \o (IF Len(kv) = 1 THEN "" ELSE "," \o StringifyEntries(Tail(kv)))

\* "key" in result
HasKey(v, key) == \E i \in 1..Len(v.kv) : v.kv[i][1] = key

\* result[key], for a key the map has
GetKey(v, key) == v.kv[CHOOSE i \in 1..Len(v.kv) : v.kv[i][1] = key][2]

-----------------------------------------------------------------------------
(* The datasets: the catalogue of the application and the file contents a  *)
(* fetch can deliver.                                                      *)

AVAILABLE_DATASETS ==
  { [name |-> "GeoLite2-ASN", type |-> "asn"],
    [name |-> "GeoLite2-City", type |-> "city"],
    [name |-> "GeoLite2-Country", type |-> "country"] }

AsnGoogle ==
  VMap(<< <<"autonomous_system_number", VNum(15169)>>,
          <<"autonomous_system_organization", VStr("GOOGLE")>> >>)

AsnCloudflare ==
  VMap(<< <<"autonomous_system_number", VNum(13335)>>,
          <<"autonomous_system_organization", VStr("CLOUDFLARENET")>> >>)

CountryUS ==
  VMap(<< <<"continent", VMap(<< <<"code", VStr("NA")>> >>)>>,
          <<"country", VMap(<< <<"iso_code", VStr("US")>> >>)>> >>)

CityRec ==
  VMap(<< <<"city", VMap(<< <<"geoname_id", VNum(5375480)>> >>)>>,
          <<"country", VMap(<< <<"iso_code", VStr("US")>> >>)>>,
          <<"location", VMap(<< <<"accuracy_radius", VNum(20)>> >>)>> >>)

\* A record with none of the keys the type guards look for
RegisteredOnly ==
  VMap(<< <<"registered_country", VMap(<< <<"iso_code", VStr("DE")>> >>)>> >>)

\* A data record that is the unsigned integer 0
Zero == VNum(0)

\* A data record whose bytes do not decode
Bad == [t |-> "bad"]

DataSection == <<AsnGoogle, AsnCloudflare, CountryUS, CityRec, RegisteredOnly, Zero, Bad>>

\* An IPv4 tree:
\*   0.0.0.0/2 AsnGoogle      64.0.0.0/2 AsnCloudflare   128.0.0.0/2 no data
\*   192.0.0.0/9 Bad          192.128.0.0/9 CountryUS    200.0.0.0/5 CityRec
\*   208.0.0.0/4 RegisteredOnly                          224.0.0.0/3 Zero
NodesF4 ==
  <<<<1, 2>>, <<11, 12>>, <<10, 3>>, <<4, 16>>, <<5, 15>>, <<6, 14>>,
    <<7, 10>>, <<8, 10>>, <<9, 10>>, <<17, 13>>>>

\* An IPv6 tree with the IPv4 space at ::/96 and ::ffff:0:0/96 aliased to it:
\*   0.0.0.0/5 CountryUS      8.0.0.0/5 AsnGoogle        128.0.0.0/1 CountryUS
\*   1::/16 CityRec           2000::/3 RegisteredOnly
NodesF6 ==
  <<<<1, 116>>, <<2, 116>>, <<3, 121>>, <<4, 116>>, <<5, 116>>, <<6, 116>>,
    <<7, 116>>, <<8, 116>>, <<9, 116>>, <<10, 116>>, <<11, 116>>,
    <<12, 116>>, <<13, 116>>, <<14, 116>>, <<15, 116>>, <<16, 120>>,
    <<17, 116>>, <<18, 116>>, <<19, 116>>, <<20, 116>>, <<21, 116>>,
    <<22, 116>>, <<23, 116>>, <<24, 116>>, <<25, 116>>, <<26, 116>>,
    <<27, 116>>, <<28, 116>>, <<29, 116>>, <<30, 116>>, <<31, 116>>,
    <<32, 116>>, <<33, 116>>, <<34, 116>>, <<35, 116>>, <<36, 116>>,
    <<37, 116>>, <<38, 116>>, <<39, 116>>, <<40, 116>>, <<41, 116>>,
    <<42, 116>>, <<43, 116>>, <<44, 116>>, <<45, 116>>, <<46, 116>>,
    <<47, 116>>, <<48, 116>>, <<49, 116>>, <<50, 116>>, <<51, 116>>,
    <<52, 116>>, <<53, 116>>, <<54, 116>>, <<55, 116>>, <<56, 116>>,
    <<57, 116>>, <<58, 116>>, <<59, 116>>, <<60, 116>>, <<61, 116>>,
    <<62, 116>>, <<63, 116>>, <<64, 116>>, <<65, 116>>, <<66, 116>>,
    <<67, 116>>, <<68, 116>>, <<69, 116>>, <<70, 116>>, <<71, 116>>,
    <<72, 116>>, <<73, 116>>, <<74, 116>>, <<75, 116>>, <<76, 116>>,
    <<77, 116>>, <<78, 116>>, <<79, 116>>, <<80, 116>>, <<81, 101>>,
    <<82, 116>>, <<83, 116>>, <<84, 116>>, <<85, 116>>, <<86, 116>>,
    <<87, 116>>, <<88, 116>>, <<89, 116>>, <<90, 116>>, <<91, 116>>,
    <<92, 116>>, <<93, 116>>, <<94, 116>>, <<95, 116>>, <<96, 116>>,
    <<97, 119>>, <<98, 116>>, <<99, 116>>, <<100, 116>>, <<119, 117>>,
    <<116, 102>>, <<116, 103>>, <<116, 104>>, <<116, 105>>, <<116, 106>>,
    <<116, 107>>, <<116, 108>>, <<116, 109>>, <<116, 110>>, <<116, 111>>,
    <<116, 112>>, <<116, 113>>, <<116, 114>>, <<116, 115>>, <<116, 96>>>>

FileV4 == [ip_version |-> 4, nodes |-> NodesF4, data |-> DataSection]
FileV6 == [ip_version |-> 6, nodes |-> NodesF6, data |-> DataSection]
\* The IPv6 tree without the alias: ::ffff:0:0/96 holds no data
FileV6Plain ==
  [ip_version |-> 6, nodes |-> [NodesF6 EXCEPT ![116] = <<116, 116>>],
   data |-> DataSection]
\* An IPv4 tree whose records lead back into the tree and never to data
FileLoop == [ip_version |-> 4, nodes |-> <<<<0, 1>>, <<1, 0>>>>, data |-> <<>>]
\* A tree with no nodes
FileEmpty == [ip_version |-> 6, nodes |-> <<>>, data |-> <<>>]

\* A reader is named by the file it was constructed from
Files == {"FileV4", "FileV6", "FileV6Plain", "FileEmpty"}

FileOf(reader) ==
  CASE reader = "FileV4" -> FileV4
    [] reader = "FileV6" -> FileV6
    [] reader = "FileV6Plain" -> FileV6Plain
    [] reader = "FileEmpty" -> FileEmpty
    [] reader = "FileLoop" -> FileLoop

-----------------------------------------------------------------------------
(* The Reader of mmdb-lib, from the search-tree contract: the address is   *)
(* parsed to bytes, the tree is walked from node 0 one bit per level, most *)
(* significant bit first, and a data pointer is decoded.                   *)

\* parseInt(s, radix) for a string of digits
ParseInt(s, radix) == RadixVal(s, radix, 0)

RECURSIVE MapParts(_, _)
MapParts(parts, radix) ==
  IF Len(parts) = 0 THEN <<>>
  ELSE <<ParseInt(parts[1], radix)>> \o MapParts(Tail(parts), radix)

\* "a.b.c.d" -> <<a, b, c, d>>
ParseIPv4(s) == MapParts(Split(s, "."), 10)

\* The 16-bit groups of one side of "::": hex groups, and a trailing dotted
\* quad as two groups
RECURSIVE GroupsOf(_)
GroupsOf(parts) ==
  IF Len(parts) = 0 THEN <<>>
  ELSE IF Includes(parts[1], ".")
       THEN LET o == ParseIPv4(parts[1])
            IN  <<o[1] * 256 + o[2], o[3] * 256 + o[4]>> \o GroupsOf(Tail(parts))
       ELSE <<ParseInt(parts[1], 16)>> \o GroupsOf(Tail(parts))

RECURSIVE ZeroSeq(_)
ZeroSeq(n) == IF n <= 0 THEN <<>> ELSE <<0>> \o ZeroSeq(n - 1)

RECURSIVE GroupBytes(_)
GroupBytes(gs) ==
  IF Len(gs) = 0 THEN <<>>
  ELSE <<gs[1] \div 256, gs[1] % 256>> \o GroupBytes(Tail(gs))

NonEmpty(parts) == SelectSeq(parts, LAMBDA x : x # "")

\* An IPv6 literal -> its 16 bytes ("::" stands for the groups left out)
ParseIPv6(s) ==
  LET parts == Split(s, ":")
      gap == IF \E i \in 1..Len(parts) : parts[i] = ""
             THEN CHOOSE i \in 1..Len(parts) :
                    parts[i] = "" /\ \A j \in 1..(i - 1) : parts[j] # ""
             ELSE Len(parts) + 1
      left == GroupsOf(NonEmpty(SubSeq(parts, 1, gap - 1)))
      right == GroupsOf(NonEmpty(SubSeq(parts, gap, Len(parts))))
  IN  GroupBytes(left \o ZeroSeq(8 - Len(left) - Len(right)) \o right)

\* The bytes of a literal: 4 for a dotted quad, 16 when it holds a ':'
ParseIP(s) == IF Includes(s, ":") THEN ParseIPv6(s) ELSE ParseIPv4(s)

\* Bit i (0 = most significant) of a byte sequence
BitAt(bytes, i) == (bytes[(i \div 8) + 1] \div Pow2(7 - (i % 8))) % 2

NodeCount(file) == Len(file.nodes)

\* The walk is at [rec, depth]: it goes on while bits remain and the record
\* is a node index
Walking(file, bytes, w) == w.depth < Len(bytes) * 8 /\ w.rec < NodeCount(file)

\* A walk that takes the right record on 0 and the left record on 1
WalkStepSwapped(file, bytes, w) ==
  IF Walking(file, bytes, w)
  THEN [rec |-> file.nodes[w.rec + 1][2 - BitAt(bytes, w.depth)], depth |-> w.depth + 1]
  ELSE w

\* One turn of the loop: take the left (0) or right (1) record of the node
WalkStep(file, bytes, w) ==
  IF Walking(file, bytes, w)
  THEN [rec |-> file.nodes[w.rec + 1][BitAt(bytes, w.depth) + 1], depth |-> w.depth + 1]
  ELSE w

\* Up to n turns of the loop, as the first half of them and then the rest
RECURSIVE WalkSteps(_, _, _, _)
WalkRest(file, bytes, w, n) ==
  IF Walking(file, bytes, w) THEN WalkSteps(file, bytes, w, n) ELSE w

WalkSteps(file, bytes, w, n) ==
  IF n <= 1 THEN WalkStep(file, bytes, w)
  ELSE WalkRest(file, bytes, WalkSteps(file, bytes, w, n \div 2), n - (n \div 2))

\* The walk from a node: the record it stops at and the number of bits
\* consumed (one turn per bit at most)
TreeWalk(file, bytes, depth, node) ==
  WalkSteps(file, bytes, [rec |-> node, depth |-> depth], Len(bytes) * 8)

\* An IPv4 address in an IPv6 tree sits at ::a.b.c.d (96 zero bits first)
TreeBytes(file, bytes) ==
  IF Len(bytes) = 4 /\ file.ip_version = 6 THEN ZeroSeq(12) \o bytes ELSE bytes

Incompatible(file, bytes) == Len(bytes) = 16 /\ file.ip_version = 4

\* The leaf of an address: [rec, depth]; rec > node_count is a data pointer,
\* anything else is "not found"
Leaf(file, ip) == TreeWalk(file, TreeBytes(file, ParseIP(ip)), 0, 0)

IsDataPointer(file, rec) == rec > NodeCount(file)

\* The value at a data pointer: decoded, or the decoder raises
DecodeData(v) ==
  IF v.t = "bad" THEN [st |-> "throw", msg |-> "UnknownTypeTag"]
  ELSE [st |-> "ok", val |-> v]

\* What the record the walk stopped at resolves to
Resolve(file, rec) ==
  IF ~IsDataPointer(file, rec) THEN [st |-> "null"]
  ELSE DecodeData(file.data[rec - NodeCount(file)])

\* Reader.get(ip): [st |-> "ok", val], [st |-> "null"] or [st |-> "throw", msg]
FileGet(file, ip) ==
  IF Incompatible(file, ParseIP(ip))
  THEN [st |-> "throw", msg |-> "IncompatibleAddressFamily"]
  ELSE Resolve(file, Leaf(file, ip).rec)

\* reader.get(ip); on a null reader the property access raises a TypeError
ReaderGet(reader, ip) ==
  IF reader = "null" THEN [st |-> "throw", msg |-> "TypeError"]
  ELSE FileGet(FileOf(reader), ip)

-----------------------------------------------------------------------------
(* The Data Decoder of the Reader (specification, section 4.2), on a data  *)
(* section given as its bytes.  decode(offset) gives the value and the     *)
(* offset after it, or fails.  Offsets count from 0; pointer targets are   *)
(* relative to the start of the data section.                              *)

\* Redirections followed from the start of one decode before it gives up
PointerDepthBound == 16

ByteAt(buf, o) == buf[o + 1]

Decoded(val, next) == [st |-> "ok", val |-> val, next |-> next]
DecodeFails(msg) == [st |-> "error", msg |-> msg]

\* The n bytes from offset o as a big-endian number, on top of acc
RECURSIVE BigEndian(_, _, _, _)
BigEndian(buf, o, n, acc) ==
  IF n = 0 THEN acc ELSE BigEndian(buf, o + 1, n - 1, acc * 256 + ByteAt(buf, o))

\* The size of a value whose descriptor is d and whose size bytes would
\* start at o: [size, next], next = -1 when the size bytes are cut off
SizeAt(buf, d, o) ==
  IF d < 29 THEN [size |-> d, next |-> o]
  ELSE IF o + (d - 28) > Len(buf) THEN [size |-> 0, next |-> -1]
  ELSE [size |-> BigEndian(buf, o, d - 28, 0)
                   + (IF d = 29 THEN 29 ELSE IF d = 30 THEN 285 ELSE 65821),
        next |-> o + (d - 28)]

\* A pointer's size class (0..3: 1..4 bytes follow), its target and the
\* offset after its own bytes
PointerClass(ctrl) == (ctrl \div 8) % 4

PointerTarget(buf, offset, ctrl) ==
  BigEndian(buf, offset + 1, PointerClass(ctrl) + 1,
            IF PointerClass(ctrl) = 3 THEN 0 ELSE ctrl % 8)
    + (CASE PointerClass(ctrl) = 0 -> 0
         [] PointerClass(ctrl) = 1 -> 2048
         [] PointerClass(ctrl) = 2 -> 526336
         [] PointerClass(ctrl) = 3 -> 0)

AfterPointer(offset, ctrl) == offset + 2 + PointerClass(ctrl)

\* <<k1, v1, k2, v2, ...>> as the entries of a Map
RECURSIVE PairUp(_)
PairUp(vals) ==
  IF Len(vals) < 2 THEN <<>>
  ELSE << <<vals[1], vals[2]>> >> \o PairUp(Tail(Tail(vals)))

RECURSIVE Decode(_, _, _)
RECURSIVE DecodeSeq(_, _, _, _, _)

\* A pointer that hands on the offset after the pointee
ThroughPointerPointee(pointee, next) == pointee

\* The pointee's value with the offset after the pointer, or the failure
ThroughPointer(pointee, next) ==
  IF pointee.st = "ok" THEN Decoded(pointee.val, next) ELSE pointee

\* A pointer followed one redirection beyond the bound
DecodePointerOneMore(buf, offset, ctrl, depth) ==
  IF AfterPointer(offset, ctrl) > Len(buf) THEN DecodeFails("TruncatedData")
  ELSE IF depth > PointerDepthBound THEN DecodeFails("PointerDepthExceeded")
  ELSE ThroughPointer(Decode(buf, PointerTarget(buf, offset, ctrl), depth + 1),
                      AfterPointer(offset, ctrl))

DecodePointer(buf, offset, ctrl, depth) ==
  IF AfterPointer(offset, ctrl) > Len(buf) THEN DecodeFails("TruncatedData")
  ELSE IF depth >= PointerDepthBound THEN DecodeFails("PointerDepthExceeded")
  ELSE ThroughPointer(Decode(buf, PointerTarget(buf, offset, ctrl), depth + 1),
                      AfterPointer(offset, ctrl))

\* A Map or Array from its elements
Collected(type, elems) ==
  IF elems.st # "ok" THEN elems
  ELSE IF type = 7 THEN Decoded([t |-> "map", kv |-> PairUp(elems.val)], elems.next)
  ELSE Decoded([t |-> "array", items |-> elems.val], elems.next)

\* A value of the given type and size whose payload starts at o
DecodePayload(buf, type, size, o, depth) ==
  IF type = 7 THEN Collected(7, DecodeSeq(buf, o, 2 * size, depth, <<>>))
  ELSE IF type = 11 THEN Collected(11, DecodeSeq(buf, o, size, depth, <<>>))
  ELSE IF type = 14 THEN Decoded([t |-> "bool", b |-> size # 0], o)
  ELSE IF type \in {12, 13} \/ type > 15 THEN DecodeFails("UnknownTypeTag")
  ELSE IF o + size > Len(buf) THEN DecodeFails("TruncatedData")
  ELSE IF type \in {5, 6, 8, 9}
       THEN Decoded([t |-> "num", n |-> BigEndian(buf, o, size, 0)], o + size)
  ELSE Decoded([t |-> IF type = 2 THEN "str" ELSE "bytes",
                bytes |-> SubSeq(buf, o + 1, o + size)], o + size)

\* The value whose type is known, its size bytes starting at o
DecodeSized(buf, type, sized, depth) ==
  IF sized.next < 0 THEN DecodeFails("TruncatedData")
  ELSE DecodePayload(buf, type, sized.size, sized.next, depth)

\* decode(offset), depth redirections into this decode
Decode(buf, offset, depth) ==
  IF offset < 0 \/ offset >= Len(buf) THEN DecodeFails("TruncatedData")
  ELSE IF ByteAt(buf, offset) \div 32 = 1
       THEN DecodePointer(buf, offset, ByteAt(buf, offset), depth)
  ELSE IF ByteAt(buf, offset) \div 32 = 0
       THEN IF offset + 1 >= Len(buf) THEN DecodeFails("TruncatedData")
            ELSE DecodeSized(buf, 7 + ByteAt(buf, offset + 1),
                             SizeAt(buf, ByteAt(buf, offset) % 32, offset + 2), depth)
  ELSE DecodeSized(buf, ByteAt(buf, offset) \div 32,
                   SizeAt(buf, ByteAt(buf, offset) % 32, offset + 1), depth)

\* One more element after the ones decoded so far
DecodeNext(buf, n, depth, acc, elem) ==
  IF elem.st # "ok" THEN elem
  ELSE DecodeSeq(buf, elem.next, n - 1, depth, Append(acc, elem.val))

\* n values in sequence from offset, each starting where the last one ended
DecodeSeq(buf, offset, n, depth, acc) ==
  IF n = 0 THEN Decoded(acc, offset)
  ELSE DecodeNext(buf, n, depth, acc, Decode(buf, offset, depth))

-----------------------------------------------------------------------------
(* mmdb.ts                                                                 *)

\* null, for a dataset (a record) and for a reader (a name)
null == [name |-> "null", type |-> "null"]
nullReader == "null"

createMMDBContext == [dataset |-> null, reader |-> nullReader]

\* What a call gives its caller
None == [kind |-> "none"]
Returns(v) == [kind |-> "value", val |-> v]
ReturnsNull == [kind |-> "null"]
Throws(msg) == [kind |-> "error", msg |-> msg]

isAsnResponse(result) ==
  /\ HasKey(result, "autonomous_system_number")
  /\ GetKey(result, "autonomous_system_number").t = "num"

isCityResponse(result) ==
  \/ HasKey(result, "city")
  \/ HasKey(result, "location")
  \/ HasKey(result, "postal")
  \/ HasKey(result, "subdivisions")

isCountryResponse(result) ==
  HasKey(result, "country") \/ HasKey(result, "continent")

AsnFallback ==
  VMap(<< <<"autonomous_system_number", VNum(0)>>,
          <<"autonomous_system_organization", VStr("Unknown")>> >>)

EmptyObject == VMap(<<>>)

\* transformResult: the record the caller gets for a decoded map
transformResult(result, datasetType) ==
  CASE datasetType = "asn" ->
         IF isAsnResponse(result) THEN result ELSE AsnFallback
    [] datasetType = "city" ->
         IF isCityResponse(result) THEN result ELSE EmptyObject
    [] datasetType = "country" ->
         IF isCountryResponse(result) THEN result ELSE EmptyObject
    [] OTHER -> result

\* ToInt32(0xffffffff)
AllOnes32 == -1

RECURSIVE MapNumber(_)
MapNumber(parts) ==
  IF Len(parts) = 0 THEN <<>> ELSE <<Number(parts[1])>> \o MapNumber(Tail(parts))

\* (parts[0] << 24) + (parts[1] << 16) + (parts[2] << 8) + parts[3]
IpInt(ip) ==
  LET parts == MapNumber(Split(ip, "."))
  IN  JSAdd(JSAdd(JSAdd(Num(ShiftLeft(ToInt32(parts[1]), 24)),
                        Num(ShiftLeft(ToInt32(parts[2]), 16))),
                  Num(ShiftLeft(ToInt32(parts[3]), 8))),
            parts[4])

\* The mask without the "32 -": 0xffffffff << currentPrefix
MaskForUnshifted(currentPrefix) == ShiftLeft(AllOnes32, currentPrefix)

\* 0xffffffff << (32 - currentPrefix)
MaskFor(currentPrefix) == ShiftLeft(AllOnes32, 32 - currentPrefix)

\* [(n >>> 24) & 0xff, (n >>> 16) & 0xff, (n >>> 8) & 0xff, n & 0xff].join(".")
DottedQuad(n) ==
  Join(<<NumToString(BitAnd(UShiftRight(n, 24), 255)),
         NumToString(BitAnd(UShiftRight(n, 16), 255)),
         NumToString(BitAnd(UShiftRight(n, 8), 255)),
         NumToString(BitAnd(n, 255))>>, ".")

\* JSON.stringify(reader.get(x)) for a get that did not raise
StringifyGet(r) == IF r.st = "null" THEN "null" ELSE JSONStringify(r.val)

CidrString(network, prefix) == network \o "/" \o NumToString(prefix)

\* What one pass of a search loop does: return a block, or go on; with the
\* number of reader.get calls it made and whether one of them raised
Found(block, gets, raised) == [ret |-> TRUE, val |-> block, gets |-> gets, raised |-> raised]
GoOn(gets, raised) == [ret |-> FALSE, val |-> "", gets |-> gets, raised |-> raised]

\* The comparison by identity: what a lookup returns is never the object the
\* target lookup returned
CompareIdentity(r, targetDataStr) == IF r.st = "throw" THEN "raised" ELSE "differs"

\* A lookup made inside a search loop, compared with the target:
\*   "raised"   reader.get raised
\*   "same"     JSON.stringify of what it returned === targetDataStr
\*   "differs"  otherwise
Compare(r, targetDataStr) ==
  IF r.st = "throw" THEN "raised"
  ELSE IF StringifyGet(r) = targetDataStr THEN "same"
  ELSE "differs"

Probe(reader, ip, targetDataStr) == Compare(ReaderGet(reader, ip), targetDataStr)

\* The body of the loop returning at the first network that gives any data
\* but the target's
IPv4DecideOnDiffers(currentPrefix, networkIP, network, inNetwork, alternate) ==
  IF network = "differs" THEN Found(CidrString(networkIP, currentPrefix), 1, FALSE)
  ELSE GoOn(1, network = "raised")

\* The body of the loop of findIPv4CIDRBlock once its lookups are known:
\* network is the probe of networkIP, alternate the probe of alternateIPStr,
\* inNetwork the test (alternateIP & mask) === currentNetwork
IPv4Decide(currentPrefix, networkIP, network, inNetwork, alternate) ==
  CASE network = "raised" -> GoOn(1, TRUE)
    [] network = "same" -> Found(CidrString(networkIP, currentPrefix), 1, FALSE)
    [] network = "differs" /\ ~inNetwork -> GoOn(1, FALSE)
    [] network = "differs" /\ inNetwork /\ alternate = "raised" ->
         Found(CidrString(networkIP, currentPrefix), 2, TRUE)
    [] network = "differs" /\ inNetwork /\ alternate = "differs" ->
         Found(CidrString(networkIP, currentPrefix), 2, FALSE)
    [] network = "differs" /\ inNetwork /\ alternate = "same" -> GoOn(2, FALSE)

\* currentNetwork = ipInt & mask; alternateIP = ipInt ^ (1 << (31 - bit))
IPv4PassAt(reader, ipInt, targetDataStr, bit, mask) ==
  IPv4Decide(bit + 1,
             DottedQuad(BitAnd(ipInt, mask)),
             Probe(reader, DottedQuad(BitAnd(ipInt, mask)), targetDataStr),
             BitAnd(BitXor(ipInt, ShiftLeft(1, 31 - bit)), mask) = BitAnd(ipInt, mask),
             Probe(reader, DottedQuad(BitXor(ipInt, ShiftLeft(1, 31 - bit))),
                   targetDataStr))

\* One pass of the loop of findIPv4CIDRBlock, for bit in 0..31
IPv4Pass(reader, ipInt, targetDataStr, bit) ==
  IPv4PassAt(reader, ToInt32(ipInt), targetDataStr, bit, MaskFor(bit + 1))

\* The candidates from the widest to the narrowest
commonPrefixesAscending == <<16, 24, 32, 40, 48, 56, 64, 128>>

commonPrefixes == <<128, 64, 56, 48, 40, 32, 24, 16>>

\* The simplified block string findIPv6CIDRBlock builds for a prefix
IPv6Block(ip, prefix) ==
  LET parts == Split(ip, ":")
  IN  IF prefix >= 64 THEN Join(Slice0(parts, 4), ":") \o "::/" \o NumToString(prefix)
      ELSE IF prefix >= 32 THEN Join(Slice0(parts, 2), ":") \o "::/" \o NumToString(prefix)
      ELSE parts[1] \o "::/" \o NumToString(prefix)

\* testResult && JSON.stringify(testResult) === targetDataStr
IPv6Decide(cidrBlock, testResult, targetDataStr) ==
  IF testResult.st = "throw" THEN GoOn(1, TRUE)
  ELSE IF /\ testResult.st = "ok"
          /\ Truthy(testResult.val)
          /\ JSONStringify(testResult.val) = targetDataStr
  THEN Found(cidrBlock, 1, FALSE)
  ELSE GoOn(1, FALSE)

\* One pass of the loop of findIPv6CIDRBlock, for the idx-th common prefix
IPv6Pass(reader, ip, targetDataStr, idx) ==
  IPv6Decide(IPv6Block(ip, commonPrefixes[idx]), ReaderGet(reader, ip), targetDataStr)

-----------------------------------------------------------------------------
(* A call of lookupIP or findCIDRBlock as a sequence of steps.  A call's   *)
(* locals: pc (where it is), ipInt, targetDataStr, reader (the reader      *)
(* handed to the search loop), i (the loop counter), out (what it gave its *)
(* caller).  gets and raised record the reader.get calls it made.          *)

Idle ==
  [op |-> "", ip |-> "", pc |-> "idle", ipInt |-> Num(0), targetDataStr |-> "",
   reader |-> nullReader, i |-> 0, out |-> None, gets |-> 0, raised |-> FALSE]

CallStart(op, ip) == [Idle EXCEPT !.op = op, !.ip = ip, !.pc = "entry"]

Done(st, out) == [st EXCEPT !.pc = "done", !.out = out]

Got(st, r) ==
  [st EXCEPT !.gets = @ + 1, !.raised = @ \/ r.st = "throw"]

\* Catch blocks that also drop the loaded dataset and its reader
LookupIPCatchReset(ctx, msg) ==
  [ctx |-> createMMDBContext, out |-> Throws("IP lookup failed: " \o msg)]

FindCIDRBlockCatchReset(ctx, msg) == [ctx |-> createMMDBContext, out |-> ReturnsNull]

\* The catch block of lookupIP: the context it leaves and what the call gives
LookupIPCatch(ctx, msg) ==
  [ctx |-> ctx, out |-> Throws("IP lookup failed: " \o msg)]

\* The catch block of findCIDRBlock
FindCIDRBlockCatch(ctx, msg) == [ctx |-> ctx, out |-> ReturnsNull]

\* A catch block ran: the call ends with what it gives
Caught(st, c) == [ctx |-> c.ctx, st |-> Done(st, c.out)]

Finish(ctx, st, out) == [ctx |-> ctx, st |-> Done(st, out)]

\* The guards both functions start with
EntryStep(ctx, st) ==
  IF ctx.dataset = null \/ ctx.reader = nullReader
  THEN Finish(ctx, st, Throws("No dataset loaded"))
  ELSE IF ~isValidIP(st.ip)
  THEN Finish(ctx, st, Throws("Invalid IP address format"))
  ELSE [ctx |-> ctx, st |-> [st EXCEPT !.pc = "get"]]

\* lookupIP, the try block, with result = context.reader.get(ip)
LookupIPGot(ctx, st, result) ==
  IF result.st = "throw" THEN Caught(st, LookupIPCatch(ctx, result.msg))
  ELSE IF result.st = "null" \/ ~Truthy(result.val) THEN Finish(ctx, st, ReturnsNull)
  ELSE Finish(ctx, st, Returns(transformResult(result.val, ctx.dataset.type)))

LookupIPGetStep(ctx, st) ==
  LookupIPGot(ctx, Got(st, ReaderGet(ctx.reader, st.ip)), ReaderGet(ctx.reader, st.ip))

\* The call of findIPv4CIDRBlock or findIPv6CIDRBlock: the locals they start with
SearchStart(ctx, st, targetDataStr, isIPv4) ==
  [st EXCEPT !.targetDataStr = targetDataStr,
             !.reader = ctx.reader,
             !.ipInt = IF isIPv4 THEN IpInt(st.ip) ELSE Num(0),
             !.i = IF isIPv4 THEN 0 ELSE 1,
             !.pc = IF isIPv4 THEN "ipv4" ELSE "ipv6"]

\* findCIDRBlock, the try block up to the call of the search, with
\* targetData = context.reader.get(ip)
FindCIDRBlockGot(ctx, st, targetData) ==
  IF targetData.st = "throw" THEN Caught(st, FindCIDRBlockCatch(ctx, targetData.msg))
  ELSE IF targetData.st = "null" \/ ~Truthy(targetData.val)
  THEN Finish(ctx, st, ReturnsNull)
  ELSE [ctx |-> ctx,
        st |-> SearchStart(ctx, st, JSONStringify(targetData.val), Includes(st.ip, "."))]

FindCIDRBlockGetStep(ctx, st) ==
  FindCIDRBlockGot(ctx, Got(st, ReaderGet(ctx.reader, st.ip)), ReaderGet(ctx.reader, st.ip))

Counted(st, pass) ==
  [st EXCEPT !.gets = @ + pass.gets, !.raised = @ \/ pass.raised]

\* After a pass of a search loop: return the block, or loop
AfterPass(ctx, st, pass) ==
  IF pass.ret THEN Finish(ctx, Counted(st, pass), Returns(pass.val))
  ELSE [ctx |-> ctx, st |-> [Counted(st, pass) EXCEPT !.i = @ + 1]]

\* findIPv4CIDRBlock: one pass of the loop, or the return after it
FindIPv4Step(ctx, st) ==
  IF st.i >= 32 THEN Finish(ctx, st, Returns(CidrString(st.ip, 32)))
  ELSE AfterPass(ctx, st, IPv4Pass(st.reader, st.ipInt, st.targetDataStr, st.i))

\* findIPv6CIDRBlock: one pass of the loop, or the return after it
FindIPv6Step(ctx, st) ==
  IF st.i > Len(commonPrefixes) THEN Finish(ctx, st, Returns(CidrString(st.ip, 128)))
  ELSE AfterPass(ctx, st, IPv6Pass(st.reader, st.ip, st.targetDataStr, st.i))

\* The next step of a call that is neither idle nor done: the context and
\* the call's locals after it
Step(ctx, st) ==
  CASE st.pc = "entry" -> EntryStep(ctx, st)
    [] st.pc = "get" /\ st.op = "lookupIP" -> LookupIPGetStep(ctx, st)
    [] st.pc = "get" /\ st.op = "findCIDRBlock" -> FindCIDRBlockGetStep(ctx, st)
    [] st.pc = "ipv4" -> FindIPv4Step(ctx, st)
    [] st.pc = "ipv6" -> FindIPv6Step(ctx, st)

\* A step of a call, or nothing when the call is done
StepOrDone(x) == IF x.st.pc = "done" THEN x ELSE Step(x.ctx, x.st)

\* Up to n steps of a call, as the first half of them and then the rest
RECURSIVE Steps(_, _)
StepsRest(x, n) == IF x.st.pc = "done" THEN x ELSE Steps(x, n)

Steps(x, n) ==
  IF n <= 1 THEN StepOrDone(x)
  ELSE StepsRest(Steps(x, n \div 2), n - (n \div 2))

\* A call run to its end with nothing in between (JavaScript runs the body
\* of an async function that awaits nothing in one go): the guards, the
\* first reader.get, and the search: at most 32 passes of the longer loop
\* and the return after it.
RunSearch(x) == IF x.st.pc = "done" THEN x ELSE Steps(x, 33)

RunGet(x) == IF x.st.pc = "done" THEN x ELSE RunSearch(StepOrDone(x))

Run(ctx, st) == RunGet(StepOrDone([ctx |-> ctx, st |-> st]))

lookupIP(ctx, ip) == Run(ctx, CallStart("lookupIP", ip))
findCIDRBlock(ctx, ip) == Run(ctx, CallStart("findCIDRBlock", ip))

-----------------------------------------------------------------------------
(* mmdb.ts: getIPRangeDescription                                          *)

\* parts[i] of an array of numbers: undefined past its end, and undefined
\* compares like NaN (=== and >= and <= are all false)
PartAt(parts, i) == IF i <= Len(parts) THEN parts[i] ELSE NumNaN

\* x === n, and x >= lo && x <= hi
Is(x, n) == ~x.nan /\ x.v = n
Within(x, lo, hi) == ~x.nan /\ x.v >= lo /\ x.v <= hi
AtLeast(x, lo) == ~x.nan /\ x.v >= lo

\* The tests of getIPv4RangeDescription in the order of the source
IPv4RangeText(a, b, c, d) ==
  IF Is(a, 10)
  THEN Returns("This is a private IP address (RFC 1918: 10.0.0.0/8) and is not routed on the internet.")
  ELSE IF Is(a, 172) /\ Within(b, 16, 31)
  THEN Returns("This is a private IP address (RFC 1918: 172.16.0.0/12) and is not routed on the internet.")
  ELSE IF Is(a, 192) /\ Is(b, 168)
  THEN Returns("This is a private IP address (RFC 1918: 192.168.0.0/16) and is not routed on the internet.")
  ELSE IF Is(a, 0)
  THEN Returns("This is a 'this network' address (RFC 5735: 0.0.0.0/8) used for network configuration.")
  ELSE IF Is(a, 127)
  THEN Returns("This is a loopback address (RFC 5735: 127.0.0.0/8) used for local host communication.")
  ELSE IF Is(a, 169) /\ Is(b, 254)
  THEN Returns("This is a link-local address (RFC 5735: 169.254.0.0/16) used for automatic IP configuration.")
  ELSE IF Is(a, 224) /\ Is(b, 0) /\ Is(c, 0)
  THEN Returns("This is a local network control block address (RFC 5735: 224.0.0.0/24) used for multicast.")
  ELSE IF Within(a, 224, 239)
  THEN Returns("This is a multicast address (RFC 5735: 224.0.0.0/4) used for group communication.")
  ELSE IF AtLeast(a, 240)
  THEN Returns("This is a reserved address (RFC 5735: 240.0.0.0/4) for future use.")
  ELSE IF Is(a, 169) /\ Is(b, 254)
  THEN Returns("This is a link-local address (RFC 3927: 169.254.0.0/16) used for automatic IP configuration.")
  ELSE IF Is(a, 100) /\ Within(b, 64, 127)
  THEN Returns("This is a shared address space (RFC 6598: 100.64.0.0/10) used by carriers for NAT.")
  ELSE IF Is(a, 192) /\ Is(b, 0) /\ Is(c, 2)
  THEN Returns("This is a documentation address (RFC 5737: 192.0.2.0/24) used in examples and documentation.")
  ELSE IF Is(a, 198) /\ Is(b, 51) /\ Is(c, 100)
  THEN Returns("This is a documentation address (RFC 5737: 198.51.100.0/24) used in examples and documentation.")
  ELSE IF Is(a, 203) /\ Is(b, 0) /\ Is(c, 113)
  THEN Returns("This is a documentation address (RFC 5737: 203.0.113.0/24) used in examples and documentation.")
  ELSE IF Is(a, 192) /\ Is(b, 88) /\ Is(c, 99)
  THEN Returns("This is a 6to4 relay anycast address (RFC 3068: 192.88.99.0/24) used for IPv6 transition.")
  ELSE IF Is(a, 198) /\ Within(b, 18, 19)
  THEN Returns("This is a benchmarking address (RFC 2544: 198.18.0.0/15) used for network testing.")
  ELSE IF Is(a, 255) /\ Is(b, 255) /\ Is(c, 255) /\ Is(d, 255)
  THEN Returns("This is the limited broadcast address (255.255.255.255) used for network broadcasts.")
  ELSE ReturnsNull

\* const [a, b, c, d] = ip.split(".").map(Number)
IPv4RangeOf(parts) ==
  IPv4RangeText(PartAt(parts, 1), PartAt(parts, 2), PartAt(parts, 3), PartAt(parts, 4))

getIPv4RangeDescription(ip) == IPv4RangeOf(MapNumber(Split(ip, ".")))

UpperCase == "ABCDEFGHIJKLMNOPQRSTUVWXYZ"
LowerCase == "abcdefghijklmnopqrstuvwxyz"

\* String.prototype.toLowerCase
RECURSIVE toLowerCase(_)
LowerOf(c) ==
  IF Includes(UpperCase, c) THEN Ch(LowerCase, IndexFrom(UpperCase, c, 1)) ELSE c

toLowerCase(s) == IF Len(s) = 0 THEN "" ELSE LowerOf(Ch(s, 1)) \o toLowerCase(Tail(s))

\* String.prototype.startsWith, and includes for a longer needle
startsWith(s, prefix) == Len(s) >= Len(prefix) /\ SubSeq(s, 1, Len(prefix)) = prefix

includes(s, needle) ==
  \E i \in 1..(Len(s) - Len(needle) + 1) : SubSeq(s, i, i + Len(needle) - 1) = needle

\* The tests of getIPv6RangeDescription in the order of the source
IPv6RangeText(normalizedIP) ==
  IF normalizedIP = "::1"
  THEN Returns("This is the IPv6 loopback address (::1) used for local host communication.")
  ELSE IF normalizedIP = "::" \/ normalizedIP = "0000:0000:0000:0000:0000:0000:0000:0000"
  THEN Returns("This is the IPv6 unspecified address (::) used to indicate no address.")
  ELSE IF startsWith(normalizedIP, "fe80:")
  THEN Returns("This is a link-local address (fe80::/10) used for communication within a single network segment.")
  ELSE IF startsWith(normalizedIP, "fc") \/ startsWith(normalizedIP, "fd")
  THEN Returns("This is a unique local address (fc00::/7) used for private networks, similar to IPv4 private addresses.")
  ELSE IF startsWith(normalizedIP, "ff")
  THEN Returns("This is a multicast address (ff00::/8) used for group communication.")
  ELSE IF startsWith(normalizedIP, "2001:db8:")
  THEN Returns("This is a documentation address (2001:db8::/32) used in examples and documentation.")
  ELSE IF startsWith(normalizedIP, "2002:")
  THEN Returns("This is a 6to4 address (2002::/16) used for IPv6 transition over IPv4.")
  ELSE IF startsWith(normalizedIP, "2001:0000:") \/ startsWith(normalizedIP, "2001::")
  THEN Returns("This is a Teredo address (2001::/32) used for IPv6 connectivity through NAT.")
  ELSE IF startsWith(normalizedIP, "2001:2:")
  THEN Returns("This is a benchmarking address (2001:2::/48) used for network testing.")
  ELSE IF startsWith(normalizedIP, "2001:10:") \/ startsWith(normalizedIP, "2001:20:")
  THEN Returns("This is an ORCHID address (2001:10::/28) used for cryptographic hash identifiers.")
  ELSE IF includes(normalizedIP, "::ffff:")
  THEN Returns("This is an IPv4-mapped IPv6 address (::ffff:0:0/96) representing an IPv4 address in IPv6 format.")
  ELSE IF startsWith(normalizedIP, "::") /\ includes(normalizedIP, ".")
  THEN Returns("This is an IPv4-compatible IPv6 address (deprecated) representing an IPv4 address in IPv6 format.")
  ELSE ReturnsNull

getIPv6RangeDescription(ip) == IPv6RangeText(toLowerCase(ip))

getIPRangeDescription(ip) ==
  IF Includes(ip, ".") THEN getIPv4RangeDescription(ip) ELSE getIPv6RangeDescription(ip)

-----------------------------------------------------------------------------
(* App.tsx: how a lookup result is shown                                   *)

\* data.key, and data.a?.b: undefined when the key is missing or the value
\* has no members
Undefined == [t |-> "undef"]

Member(v, key) ==
  IF v.t = "map" /\ HasKey(v, key) THEN GetKey(v, key) ELSE Undefined

\* A value that is there and truthy (the test of `if (x)` and of `x || y`)
Present(v) == v.t # "undef" /\ Truthy(v)

\* ${v} in a template literal, for a number or a string
TemplateText(v) == IF v.t = "num" THEN ToString(v.n) ELSE v.s

\* x.toFixed(2) of a whole number
ToFixed2(v) == ToString(v.n) \o ".00"

\* The branch formatLookupData takes
formatLookupDataBranch(ip, data) ==
  IF ~Present(data) THEN "No data found"
  ELSE IF ip = "1.1.1.1" THEN "Global (Cloudflare DNS)"
  ELSE IF HasKey(data, "autonomous_system_number") THEN "asn"
  ELSE IF HasKey(data, "city") \/ HasKey(data, "location") THEN "city"
  ELSE IF HasKey(data, "country") THEN "country"
  ELSE "Unknown"

formatAsn(data) ==
  "AS"
    \o (IF Present(Member(data, "autonomous_system_number"))
        THEN TemplateText(Member(data, "autonomous_system_number")) ELSE "?????")
    \o " - "
    \o (IF Present(Member(data, "autonomous_system_organization"))
        THEN TemplateText(Member(data, "autonomous_system_organization"))
        ELSE "Unknown")

\* names.en of data[key], as a list of none or one string
EnglishName(data, key) ==
  IF Present(Member(Member(Member(data, key), "names"), "en"))
  THEN <<Member(Member(Member(data, key), "names"), "en").s>>
  ELSE <<>>

Coordinates(data) ==
  IF Present(Member(Member(data, "location"), "latitude"))
     /\ Present(Member(Member(data, "location"), "longitude"))
  THEN <<"(" \o ToFixed2(Member(Member(data, "location"), "latitude")) \o ", "
         \o ToFixed2(Member(Member(data, "location"), "longitude")) \o ")">>
  ELSE <<>>

formatCityOf(parts, coordinates) ==
  IF Len(parts) = 1
  THEN Join(NonEmpty(<<Join(parts, ", ")>> \o coordinates), " ")
       \o " [City not specified]"
  ELSE IF Len(parts) = 0 /\ Len(coordinates) = 0 THEN "Unknown Location"
  ELSE Join(NonEmpty(<<Join(parts, ", ")>> \o coordinates), " ")

formatCity(data) ==
  formatCityOf(EnglishName(data, "city") \o EnglishName(data, "country"),
               Coordinates(data))

formatCountryOf(countryParts) ==
  IF Join(countryParts, " ") = "" THEN "Unknown Country" ELSE Join(countryParts, " ")

formatCountry(data) ==
  formatCountryOf(
    EnglishName(data, "country")
      \o (IF Len(EnglishName(data, "continent")) = 1
          THEN <<"(" \o EnglishName(data, "continent")[1] \o ")">> ELSE <<>>))

formatLookupData(ip, data) ==
  CASE formatLookupDataBranch(ip, data) = "asn" -> formatAsn(data)
    [] formatLookupDataBranch(ip, data) = "city" -> formatCity(data)
    [] formatLookupDataBranch(ip, data) = "country" -> formatCountry(data)
    [] OTHER -> formatLookupDataBranch(ip, data)

\* mmdb.ts, loadDataset.  A call in flight is [dataset, pc, loaded, total]:
\* pc "fetch" while fetch(dataset.url) is awaited, "read" while the chunks of
\* the body are read.  What it tells onProgress is [loaded, total, percentage,
\* phase] (the speed, a quotient of clock readings, is left out).
Progress(sofar, total, pct, phase) ==
  [loaded |-> sofar, total |-> total, percentage |-> pct, phase |-> phase]

\* formatFileSize for a size below 1024 bytes
formatFileSize(bytes) == IF bytes = 0 THEN "0 B" ELSE ToString(bytes) \o " B"

\* Math.round of the quotient a / b of two naturals
RoundDiv(a, b) == (2 * a + b) \div (2 * b)

Connecting == Progress(0, 0, 0, "Connecting to server...")

LoadStart(dataset) == [dataset |-> dataset, pc |-> "fetch", loaded |-> 0, total |-> 0]

\* After the fetch: total is the content-length, 0 when there is none
Downloading(dataset, total) ==
  Progress(0, total, 0,
           IF total > 0
           THEN "Downloading " \o dataset.name \o " (" \o formatFileSize(total) \o ")..."
           ELSE "Downloading " \o dataset.name \o "...")

\* After a chunk, sofar the bytes loaded with it
percentage(sofar, total) ==
  IF total > 0 THEN RoundDiv(sofar * 100, total)
  ELSE IF RoundDiv(sofar * 100, 10000) < 50 THEN RoundDiv(sofar * 100, 10000) ELSE 50

ChunkRead(dataset, sofar, total) ==
  Progress(sofar, total, percentage(sofar, total), "Downloading " \o dataset.name \o "...")

\* The catch block of loadDataset: what it raises for the error it caught
LoadDatasetCatch(message) == Throws("Failed to load MMDB dataset: " \o message)

\* return { dataset, reader: mmdbReader }
LoadDatasetReturns(dataset, reader) == Returns([dataset |-> dataset, reader |-> reader])

\* String.prototype.trim, the white space being spaces
RECURSIVE trimStart(_)
RECURSIVE trimEnd(_)
trimStart(s) == IF Len(s) > 0 /\ Ch(s, 1) = " " THEN trimStart(Tail(s)) ELSE s
trimEnd(s) ==
  IF Len(s) > 0 /\ Ch(s, Len(s)) = " " THEN trimEnd(SubSeq(s, 1, Len(s) - 1)) ELSE s
trim(s) == trimEnd(trimStart(s))

\* App.tsx, the component's state as useState starts it.  mmdbContext is
\* the variable context; loads are the calls of loadDataset in flight.
Idling == [isLoading |-> FALSE, progress |-> 0, phase |-> ""]

AppStart ==
  [selectedDataset |-> null,
   loadingState |-> Idling,
   isDatasetLoaded |-> FALSE,
   lookupResults |-> <<>>,
   isLookingUp |-> FALSE,
   loads |-> {},
   ended |-> [kind |-> "none"]]

-----------------------------------------------------------------------------
(* The state machine.  The caller loads a dataset and makes lookups on the *)
(* context it holds.  calls[p] is the latest call in slot p; a load starts *)
(* a new context and forgets the calls made on the old one.                *)

MaxLookups == 2

Procs == {1, 2}

\* The addresses looked up: dotted quads (with and without data in the
\* trees above, with a first octet >= 128, with a leading zero), strings the
\* validator rejects, colon-only IPv6 and IPv6 with a dotted part
Literals ==
  {"8.8.8.8", "1.1.1.1", "64.0.0.1", "128.0.0.1", "192.168.1.1", "192.0.0.1",
   "200.1.1.1", "210.1.1.1", "255.255.255.255", "008.8.8.8",
   "256.1.1.1", "1.1.1.256", "1.2.3",
   "1:2:3:4:5:6:7:8", "2001:4860:4860::8888", "::ffff:200.1.1.1",
   "::ffff:8.8.8.8", "::1"}

Ops == {"lookupIP", "findCIDRBlock"}

\* Every context a caller can hold, and every call run to its end on it
\* (Run is a function of the context and the call; "@@" makes TLC tabulate
\* it once instead of running the call again at every use)
Contexts == [dataset : AVAILABLE_DATASETS \cup {null}, reader : Files \cup {nullReader}]

RunAll ==
  [x \in Contexts \X Ops \X Literals |-> Run(x[1], CallStart(x[2], x[3]))] @@ <<>>

\* Nothing evaluated yet
NoView == [kind |-> "none"]

\* A finished call failed: it raised, or a reader.get inside it raised
Failed(st) == st.out.kind = "error" \/ st.raised

Init ==
  /\ context = createMMDBContext
  /\ loaded = createMMDBContext
  /\ calls = [p \in Procs |-> Idle]
  /\ nLookups = 0
  /\ nFailed = 0
  /\ view = NoView
  /\ app = AppStart

\* loadDataset returns { dataset, reader } and the caller keeps it
LoadDataset(dataset, file) ==
  /\ context' = [dataset |-> dataset, reader |-> file]
  /\ loaded' = context'
  /\ calls' = [p \in Procs |-> Idle]
  /\ nLookups' = 0
  /\ nFailed' = 0
  /\ UNCHANGED <<view, app>>

\* A whole call of lookupIP or findCIDRBlock
Lookup(op, ip) ==
  /\ nLookups < MaxLookups
  /\ LET r == RunAll[<<context, op, ip>>]
     IN  /\ context' = r.ctx
         /\ calls' = [calls EXCEPT ![1] = r.st]
         /\ nFailed' = nFailed + (IF Failed(r.st) THEN 1 ELSE 0)
  /\ nLookups' = nLookups + 1
  /\ UNCHANGED <<loaded, view, app>>

Next ==
  \/ \E d \in AVAILABLE_DATASETS, f \in Files : LoadDataset(d, f)
  \/ \E op \in Ops, ip \in Literals : Lookup(op, ip)

Spec == Init /\ [][Next]_vars

-----------------------------------------------------------------------------
(* Calls in steps.  The same calls, each advanced one step at a time (the  *)
(* guards, the first reader.get, each pass of a search loop), the steps of *)
(* the calls in the two slots in any order.  JavaScript gives a call that  *)
(* awaits nothing no such freedom; this is every order a scheduler could   *)
(* choose and more.  A dataset is loaded only between calls.               *)

ConcLiterals == {"8.8.8.8", "192.168.1.1", "192.0.0.1", "256.1.1.1", "1:2:3:4:5:6:7:8"}

InFlight(p) == calls[p].pc \notin {"idle", "done"}

LoadBetweenCalls(dataset, file) ==
  /\ \A p \in Procs : ~InFlight(p)
  /\ LoadDataset(dataset, file)

StartCall(p, op, ip) ==
  /\ ~InFlight(p)
  /\ calls' = [calls EXCEPT ![p] = CallStart(op, ip)]
  /\ UNCHANGED <<context, loaded, nLookups, nFailed, view, app>>

StepCall(p) ==
  /\ InFlight(p)
  /\ context' = Step(context, calls[p]).ctx
  /\ calls' = [calls EXCEPT ![p] = Step(context, calls[p]).st]
  /\ UNCHANGED <<loaded, nLookups, nFailed, view, app>>

NextConc ==
  \/ \E d \in AVAILABLE_DATASETS, f \in Files : LoadBetweenCalls(d, f)
  \/ \E p \in Procs, op \in Ops, ip \in ConcLiterals : StartCall(p, op, ip)
  \/ \E p \in Procs : StepCall(p)

SpecConc == Init /\ [][NextConc]_vars

-----------------------------------------------------------------------------
(* The functions on values of their own: each action evaluates one of them *)
(* on one input and keeps the input and the outcome in view.               *)

\* Records a database can hold beside the ones of the trees above
PostalOnly ==
  VMap(<< <<"postal", VMap(<< <<"code", VStr("94043")>> >>)>>,
          <<"registered_country", VMap(<< <<"iso_code", VStr("US")>> >>)>> >>)

ContinentOnly ==
  VMap(<< <<"continent", VMap(<< <<"code", VStr("EU")>>,
                                 <<"names", VMap(<< <<"en", VStr("Europe")>> >>)>> >>)>> >>)

AsnText ==
  VMap(<< <<"autonomous_system_number", VStr("15169")>>,
          <<"autonomous_system_organization", VStr("GOOGLE")>> >>)

CityNamed ==
  VMap(<< <<"city", VMap(<< <<"names", VMap(<< <<"en", VStr("Mountain View")>> >>)>> >>)>>,
          <<"country", VMap(<< <<"names", VMap(<< <<"en", VStr("United States")>> >>)>> >>)>>,
          <<"location", VMap(<< <<"latitude", VNum(37)>>, <<"longitude", VNum(-122)>> >>)>> >>)

CountryNamed ==
  VMap(<< <<"continent", VMap(<< <<"names", VMap(<< <<"en", VStr("Asia")>> >>)>> >>)>>,
          <<"country", VMap(<< <<"names", VMap(<< <<"en", VStr("Japan")>> >>)>> >>)>> >>)

Records ==
  {AsnGoogle, AsnCloudflare, CountryUS, CityRec, RegisteredOnly,
   PostalOnly, ContinentOnly, AsnText, CityNamed, CountryNamed}

\* lookupIP's transformResult on a record of a dataset of the given type,
\* and the text the page shows for the result
Classify(dataset, ip, record) ==
  /\ view' = [kind |-> "classify", type |-> dataset.type, ip |-> ip,
              record |-> record,
              data |-> transformResult(record, dataset.type),
              text |-> formatLookupData(ip, transformResult(record, dataset.type))]
  /\ UNCHANGED <<context, loaded, calls, nLookups, nFailed, app>>

\* The walk of the search tree for one address, and what reader.get makes
\* of the record it stops at
Walk(reader, ip) ==
  /\ isValidIP(ip)
  /\ ~Incompatible(FileOf(reader), ParseIP(ip))
  /\ view' = [kind |-> "walk", reader |-> reader, ip |-> ip,
              rec |-> Leaf(FileOf(reader), ip).rec,
              depth |-> Leaf(FileOf(reader), ip).depth,
              get |-> FileGet(FileOf(reader), ip)]
  /\ UNCHANGED <<context, loaded, calls, nLookups, nFailed, app>>

\* Data sections: a pointer to itself; chains of n pointers, each to the
\* next, ending at the number 7; a Map and an Array with a pointer-valued
\* element before a plain one (the pointee "xyz" behind, or in front at 0);
\* a cut-off string; a control byte of no known type
RECURSIVE ChainFrom(_, _)
ChainFrom(i, n) ==
  IF i = n THEN <<161, 7>> ELSE <<32, 2 * (i + 1)>> \o ChainFrom(i + 1, n)

BufferOf(name) ==
  CASE name = "self" -> <<32, 0>>
    [] name = "chain1" -> ChainFrom(0, 1)
    [] name = "chain16" -> ChainFrom(0, PointerDepthBound)
    [] name = "chain17" -> ChainFrom(0, PointerDepthBound + 1)
    [] name = "mapPointer" ->
         <<226, 65, 97, 32, 9, 65, 98, 161, 7, 67, 120, 121, 122>>
    [] name = "mapPointerBack" ->
         <<67, 120, 121, 122, 226, 65, 97, 32, 0, 65, 98, 161, 7>>
    [] name = "arrayPointer" -> <<2, 4, 32, 6, 161, 9, 67, 120, 121, 122>>
    [] name = "truncated" -> <<67, 120>>
    [] name = "unknown" -> <<0, 20, 1>>

Buffers ==
  {"self", "chain1", "chain16", "chain17", "mapPointer", "mapPointerBack",
   "arrayPointer", "truncated", "unknown"}

\* decode(offset) on a data section
DecodeAt(name, offset) ==
  /\ offset < Len(BufferOf(name))
  /\ view' = [kind |-> "decode", buffer |-> name, offset |-> offset,
              out |-> Decode(BufferOf(name), offset, 0)]
  /\ UNCHANGED <<context, loaded, calls, nLookups, nFailed, app>>

\* The addresses described, every one of them accepted by isValidIP: one or
\* more in and next to every range of the two tables
Described ==
  {"10.1.2.3", "172.16.0.1", "172.32.0.1", "192.168.1.1", "0.1.2.3", "127.0.0.1",
   "169.254.1.1", "224.0.0.5", "224.0.1.5", "239.1.1.1", "240.0.0.1",
   "255.255.255.254", "255.255.255.255", "100.64.0.1", "100.128.0.1", "192.0.2.1",
   "198.51.100.1", "203.0.113.1", "192.88.99.1", "198.18.0.1", "198.20.0.1",
   "8.8.8.8", "1.1.1.1",
   "::1", "::", "fe80::1", "fd00::1", "FF02::1", "2001:db8::1", "2002::1",
   "2001::1", "2001:2::1", "2001:10::1", "2001:4860:4860::8888",
   "::ffff:8.8.8.8", "::10.1.2.3"}

\* getIPRangeDescription on an address
Describe(ip) ==
  /\ view' = [kind |-> "describe", ip |-> ip, out |-> getIPRangeDescription(ip)]
  /\ UNCHANGED <<context, loaded, calls, nLookups, nFailed, app>>

NextFn ==
  \/ \E ip \in Described : Describe(ip)
  \/ \E b \in Buffers, o \in 0..(2 * PointerDepthBound + 3) : DecodeAt(b, o)
  \/ \E d \in AVAILABLE_DATASETS, ip \in {"1.1.1.1", "8.8.8.8"}, r \in Records :
       Classify(d, ip, r)
  \/ \E f \in Files \cup {"FileLoop"}, ip \in Literals : Walk(f, ip)

SpecFn == Init /\ [][NextFn]_vars

-----------------------------------------------------------------------------
(* The App component.  A user selects datasets and looks addresses up; the  *)
(* loads in flight go on in between.  mmdbContext is the variable context, *)
(* nLookups the lookups completed since the list of results was emptied.   *)

\* The button of a dataset that is never disabled
DatasetButtonNeverDisabled(a) == FALSE

\* disabled={loadingState.isLoading} on the button of every dataset
DatasetButtonDisabled(a) == a.loadingState.isLoading

\* The progress callback handleDatasetSelect hands to loadDataset
OnProgress(info) ==
  [isLoading |-> TRUE,
   progress |-> IF info.percentage < 100 THEN info.percentage ELSE 100,
   phase |-> info.phase,
   loaded |-> info.loaded,
   total |-> info.total]

Settled(progress, phase) ==
  [isLoading |-> FALSE, progress |-> progress, phase |-> phase, loaded |-> 0, total |-> 0]

\* handleDatasetSelect up to its await: the state the handler leaves when
\* it gives way (loadDataset has reported "Connecting to server..." over
\* the handler's own "Preparing to download...") and the call of
\* loadDataset it waits for
AlreadyLoaded(a, dataset) ==
  a.selectedDataset.name = dataset.name /\ a.isDatasetLoaded

handleDatasetSelect(a, dataset) ==
  IF AlreadyLoaded(a, dataset) THEN a
  ELSE [a EXCEPT !.selectedDataset = dataset,
                 !.isDatasetLoaded = FALSE,
                 !.lookupResults = <<>>,
                 !.loadingState = OnProgress(Connecting),
                 !.loads = @ \cup {LoadStart(dataset)}]

\* The catch block of handleDatasetSelect that leaves the loading state as
\* the last progress report set it
SelectCatchStillLoading(a) == [a EXCEPT !.isDatasetLoaded = FALSE]

\* handleDatasetSelect after its await: loadDataset returned
SelectLoaded(a) ==
  [a EXCEPT !.loadingState = Settled(100, "Dataset loaded successfully"),
            !.isDatasetLoaded = TRUE]

\* ... and its catch block: loadDataset raised
SelectCatch(a) ==
  [a EXCEPT !.loadingState = Settled(0, "Error loading dataset"),
            !.isDatasetLoaded = FALSE]

\* The call of loadDataset ends with out and handleDatasetSelect resumes:
\* the component's state and the context it holds afterwards.  ended keeps
\* what the call gave.
Resumed(a, ctx, load, out) ==
  [app |-> [(IF out.kind = "value" THEN SelectLoaded(a) ELSE SelectCatch(a))
              EXCEPT !.loads = @ \ {load},
                     !.ended = [kind |-> IF out.kind = "value" THEN "loaded" ELSE "failed",
                                dataset |-> load.dataset, out |-> out]],
   ctx |-> IF out.kind = "value" THEN out.val ELSE ctx]

\* The slice that keeps the nine results before the newest
ResultsKept == 9

\* The slice that keeps them all
NewestFirstUncut(result, prev) == <<result>> \o prev

\* [result, ...prev.slice(0, 9)]
NewestFirst(result, prev) == <<result>> \o Slice0(prev, ResultsKept)

\* The LookupResult of the try block and of the catch block of handleLookup
LookupResult(ip, dataset, data, cidrBlock) ==
  [ip |-> ip, dataset |-> dataset.name, data |-> data,
   cidrBlock |-> IF cidrBlock.kind = "value" /\ cidrBlock.val # "" THEN cidrBlock ELSE None,
   error |-> None]

LookupError(ip, dataset, message) ==
  [ip |-> ip, dataset |-> dataset.name, data |-> ReturnsNull, cidrBlock |-> None,
   error |-> Returns(message)]

\* The body of handleLookup on the trimmed ip, data and cidrBlock what
\* lookupIP and findCIDRBlock gave on mmdbContext
LookedUp(ip, dataset, data, cidrBlock) ==
  IF data.kind = "error" THEN LookupError(ip, dataset, data.msg)
  ELSE IF cidrBlock.kind = "error" THEN LookupError(ip, dataset, cidrBlock.msg)
  ELSE LookupResult(ip, dataset, data, cidrBlock)

\* handleLookup.  lookupIP and findCIDRBlock await nothing, so the handler
\* runs to its end before anything else does, isLookingUp false again.
LookupRuns(a, ip) == a.selectedDataset # null /\ a.isDatasetLoaded /\ trim(ip) # ""

handleLookup(a, ctx, ip) ==
  IF ~LookupRuns(a, ip) THEN a
  ELSE [a EXCEPT !.lookupResults =
                   NewestFirst(LookedUp(trim(ip), a.selectedDataset,
                                        RunAll[<<ctx, "lookupIP", trim(ip)>>].st.out,
                                        RunAll[<<ctx, "findCIDRBlock", trim(ip)>>].st.out),
                               @),
                 !.isLookingUp = FALSE]

MaxAppLookups == 12
MaxBytes == 2

\* What a fetch brings: the content-length (0: none sent), the sizes of the
\* chunks, the file the bytes are, and the errors on the way
ContentLengths == {0, 1, 2}
ChunkSizes == {1}
AppFiles == {"FileV4"}
FetchErrors ==
  {"Failed to fetch", "Failed to fetch MMDB file: 404 Not Found",
   "Failed to get response reader"}
ReadErrors == {"network error"}
ReaderErrors == {"CorruptFormat"}

\* What the user types or clicks
AppInputs == {"8.8.8.8", " 8.8.8.8 ", "256.1.1.1", "", " "}

Replaced(a, load, next) == [a EXCEPT !.loads = (@ \ {load}) \cup {next}]

\* The end of a call of loadDataset, handleDatasetSelect resuming
LoadEnds(load, out) ==
  /\ app' = Resumed(app, context, load, out).app
  /\ context' = Resumed(app, context, load, out).ctx
  /\ loaded' = context'
  /\ UNCHANGED <<calls, nLookups, nFailed, view>>

\* A click on the button of a dataset
Select(dataset) ==
  /\ ~DatasetButtonDisabled(app)
  /\ app' = handleDatasetSelect(app, dataset)
  /\ nLookups' = IF AlreadyLoaded(app, dataset) THEN nLookups ELSE 0
  /\ UNCHANGED <<context, loaded, calls, nFailed, view>>

\* fetch(dataset.url) gave a response with a body
Fetched(load, total) ==
  /\ load \in app.loads
  /\ load.pc = "fetch"
  /\ app' = [Replaced(app, load, [load EXCEPT !.pc = "read", !.total = total])
               EXCEPT !.loadingState = OnProgress(Downloading(load.dataset, total))]
  /\ UNCHANGED <<context, loaded, calls, nLookups, nFailed, view>>

\* fetch raised, the response was not ok, or it had no body
FetchFails(load, message) ==
  /\ load \in app.loads
  /\ load.pc = "fetch"
  /\ LoadEnds(load, LoadDatasetCatch(message))

\* reader.read() gave a chunk
Chunk(load, size) ==
  /\ load \in app.loads
  /\ load.pc = "read"
  /\ load.loaded + size <= MaxBytes
  /\ app' = [Replaced(app, load, [load EXCEPT !.loaded = @ + size])
               EXCEPT !.loadingState =
                        OnProgress(ChunkRead(load.dataset, load.loaded + size, load.total))]
  /\ UNCHANGED <<context, loaded, calls, nLookups, nFailed, view>>

\* reader.read() raised
ReadFails(load, message) ==
  /\ load \in app.loads
  /\ load.pc = "read"
  /\ LoadEnds(load, LoadDatasetCatch(message))

\* The body is read to its end and new Reader(buffer) gives a reader
ReaderBuilt(load, file) ==
  /\ load \in app.loads
  /\ load.pc = "read"
  /\ LoadEnds(load, LoadDatasetReturns(load.dataset, file))

\* ... or raises
ReaderFails(load, message) ==
  /\ load \in app.loads
  /\ load.pc = "read"
  /\ LoadEnds(load, LoadDatasetCatch(message))

\* A lookup asked for: the button, the Enter key, a sample address
AppLookup(ip) ==
  /\ nLookups < MaxAppLookups
  /\ app' = handleLookup(app, context, ip)
  /\ nLookups' = IF LookupRuns(app, ip) THEN nLookups + 1 ELSE nLookups
  /\ UNCHANGED <<context, loaded, calls, nFailed, view>>

Loads ==
  [dataset : AVAILABLE_DATASETS, pc : {"fetch", "read"}, loaded : 0..MaxBytes,
   total : ContentLengths]

LoadStep ==
  \/ \E l \in Loads, t \in ContentLengths : Fetched(l, t)
  \/ \E l \in Loads, m \in FetchErrors : FetchFails(l, m)
  \/ \E l \in Loads, n \in ChunkSizes : Chunk(l, n)
  \/ \E l \in Loads, m \in ReadErrors : ReadFails(l, m)
  \/ \E l \in Loads, f \in AppFiles : ReaderBuilt(l, f)
  \/ \E l \in Loads, m \in ReaderErrors : ReaderFails(l, m)

NextApp ==
  \/ \E d \in AVAILABLE_DATASETS : Select(d)
  \/ \E ip \in AppInputs : AppLookup(ip)
  \/ LoadStep

SpecApp == Init /\ [][NextApp]_vars

\* The promises a load awaits settle: a load in flight takes its next step
SpecAppFair == SpecApp /\ WF_vars(LoadStep)

-----------------------------------------------------------------------------
(* What the properties speak of                                            *)

\* The latest whole call (slot 1)
last == calls[1]

IsDone(st) == st.pc = "done"

IsLoaded == context.dataset # null /\ context.reader # nullReader

ReturnedBlock(st) ==
  IsDone(st) /\ st.op = "findCIDRBlock" /\ st.out.kind = "value"

\* Four groups of one to three decimal digits between dots
DottedParts(ip) ==
  /\ Len(Split(ip, ".")) = 4
  /\ \A i \in 1..4 : Len(Split(ip, ".")[i]) \in 1..3 /\ AllIn(Split(ip, ".")[i], Digits)

Octet(ip, i) == ParseInt(Split(ip, ".")[i], 10)

\* A dotted quad with every octet in 0..255, and one with an octet above
ValidDotted(ip) == DottedParts(ip) /\ \A i \in 1..4 : Octet(ip, i) <= 255
OctetOutOfRange(ip) == DottedParts(ip) /\ \E i \in 1..4 : Octet(ip, i) > 255

\* The address has a data record on the loaded dataset: looking it up
\* gives a record
HasRecord(ip) ==
  /\ IsLoaded
  /\ isValidIP(ip)
  /\ ReaderGet(context.reader, ip).st = "ok"
  /\ Truthy(ReaderGet(context.reader, ip).val)

\* "N/p": the network N and the prefix length p
BlockNetwork(block) == Split(block, "/")[1]
BlockPrefix(block) == ParseInt(Split(block, "/")[2], 10)

\* Byte sequences a and b agree on their first p bits; a is zero after them
SamePrefix(a, b, p) == \A i \in 0..(p - 1) : BitAt(a, i) = BitAt(b, i)
ZeroAfter(a, p) == \A i \in p..(Len(a) * 8 - 1) : BitAt(a, i) = 0

\* The four bytes of an IPv4-mapped (::ffff:a.b.c.d) or IPv4-compatible
\* (::a.b.c.d) address written with a dotted part, else the bytes as they are
AddressBytes(ip) ==
  IF Includes(ip, ":") /\ Includes(ip, ".")
  THEN SubSeq(ParseIP(ip), 13, 16)
  ELSE ParseIP(ip)

\* The block is a network/prefix of the family of ip and ip is inside it
Contains(block, ip) ==
  /\ isValidIP(BlockNetwork(block))
  /\ Len(AddressBytes(BlockNetwork(block))) = Len(AddressBytes(ip))
  /\ BlockPrefix(block) <= Len(AddressBytes(ip)) * 8
  /\ SamePrefix(AddressBytes(ip), AddressBytes(BlockNetwork(block)), BlockPrefix(block))

InBlockV4(x, block) ==
  /\ ValidDotted(BlockNetwork(block))
  /\ SamePrefix(ParseIPv4(x), ParseIPv4(BlockNetwork(block)), BlockPrefix(block))

\* The dotted quads among the addresses looked up
SampleV4 == {x \in Literals : ValidDotted(x)}

\* Address bits the walk consumes before it stops, counted in the address's
\* own family (an IPv4 address starts 96 bits down an IPv6 tree)
LeafDepth(ip) ==
  Leaf(FileOf(context.reader), ip).depth
    - (IF ValidDotted(ip) /\ FileOf(context.reader).ip_version = 6 THEN 96 ELSE 0)

\* The walk for ip ends at a data pointer
ReachesData(ip) ==
  IsDataPointer(FileOf(context.reader), Leaf(FileOf(context.reader), ip).rec)

SameFamily(ip) == ~Incompatible(FileOf(context.reader), ParseIP(ip))

-----------------------------------------------------------------------------
(* Properties                                                              *)

\* C1: for an IPv4 address with a data record and the block findCIDRBlock
\* returns for it, every IPv4 address inside the block (among those looked
\* up) looks up to the same record as the address
C1_BlockMembership ==
  (ReturnedBlock(last) /\ ValidDotted(last.ip) /\ HasRecord(last.ip)) =>
    \A x \in SampleV4 :
      InBlockV4(x, last.out.val) =>
        ReaderGet(context.reader, x) = ReaderGet(context.reader, last.ip)

\* C2: for an address with a data record, the prefix length findCIDRBlock
\* reports is the number of address bits the tree walk consumes, and for a
\* dotted quad the network is the address cut to that many bits
C2_PrefixIsLeafDepth ==
  (ReturnedBlock(last) /\ HasRecord(last.ip)) =>
    /\ BlockPrefix(last.out.val) = LeafDepth(last.ip)
    /\ ValidDotted(last.ip) =>
         /\ ValidDotted(BlockNetwork(last.out.val))
         /\ SamePrefix(ParseIPv4(last.ip), ParseIPv4(BlockNetwork(last.out.val)),
                       LeafDepth(last.ip))
         /\ ZeroAfter(ParseIPv4(BlockNetwork(last.out.val)), LeafDepth(last.ip))

\* C3: for a valid dotted quad with a data record, findCIDRBlock returns
\* N/p with p in 1..32 and N the address with every bit after the first p
\* cleared, whatever the sign of the address as a 32-bit integer
C3_MaskedNetwork ==
  (IsDone(last) /\ last.op = "findCIDRBlock" /\ ValidDotted(last.ip)
     /\ HasRecord(last.ip)) =>
    /\ last.out.kind = "value"
    /\ BlockPrefix(last.out.val) \in 1..32
    /\ ValidDotted(BlockNetwork(last.out.val))
    /\ SamePrefix(ParseIPv4(last.ip), ParseIPv4(BlockNetwork(last.out.val)),
                  BlockPrefix(last.out.val))
    /\ ZeroAfter(ParseIPv4(BlockNetwork(last.out.val)), BlockPrefix(last.out.val))

\* A block with a prefix longer than 1 was returned for a dotted quad whose
\* first octet is 128 or more
C3_Witness ==
  /\ ReturnedBlock(last)
  /\ ValidDotted(last.ip)
  /\ HasRecord(last.ip)
  /\ Octet(last.ip, 1) >= 128
  /\ BlockPrefix(last.out.val) > 1

\* C4: for a valid address with a data record (dotted, colon-only, or IPv6
\* with a dotted part) the block findCIDRBlock returns contains the address
C4_BlockContainsAddress ==
  (ReturnedBlock(last) /\ HasRecord(last.ip)) => Contains(last.out.val, last.ip)

\* C5: a dotted quad with an octet above 255 is rejected without a single
\* reader.get: with the invalid-address error when a dataset is loaded (and
\* with "No dataset loaded" when none is)
C5_OutOfRangeRejected ==
  (IsDone(last) /\ OctetOutOfRange(last.ip)) =>
    /\ last.gets = 0
    /\ IsLoaded => last.out = Throws("Invalid IP address format")
    /\ ~IsLoaded => last.out = Throws("No dataset loaded")

\* Both functions have rejected such a string on a loaded dataset
C5_Witness ==
  /\ IsLoaded
  /\ IsDone(last)
  /\ last.op = "findCIDRBlock"
  /\ last.ip = "1.1.1.256"
  /\ last.out = Throws("Invalid IP address format")
  /\ nLookups = 2
  /\ nFailed = 2

\* C6: for a valid address on a loaded dataset (of a family the tree holds)
\* lookupIP returns null exactly when the tree walk reaches no data record
C6_NotFoundIffNoData ==
  (IsDone(last) /\ last.op = "lookupIP" /\ IsLoaded /\ isValidIP(last.ip)
     /\ SameFamily(last.ip)) =>
    (last.out.kind = "null" <=> ~ReachesData(last.ip))

\* C7: a call in which a reader.get raised ends with an error
C7_ReaderFailureSurfaces ==
  (IsDone(last) /\ last.raised) => last.out.kind = "error"

\* C8: whatever calls were made, failed ones included, the context is the
\* one that was loaded, and the latest call gave what it gives on the
\* context as loaded
C8_ContextUnchanged ==
  /\ context = loaded
  /\ IsDone(last) => last = RunAll[<<loaded, last.op, last.ip>>].st

\* A call that returned a value after a call that failed
C8_Witness ==
  /\ IsLoaded
  /\ nLookups = 2
  /\ nFailed = 1
  /\ IsDone(last)
  /\ last.out.kind = "value"
  /\ ~last.raised

\* C9: a call whose steps were interleaved with another call's gives what
\* the same call gives when run alone on the loaded context
C9_InterleavedAsAlone ==
  \A p \in Procs :
    IsDone(calls[p]) => calls[p] = RunAll[<<loaded, calls[p].op, calls[p].ip>>].st

\* A search that made several lookups is done while the other slot's search
\* is between two passes of its loop
C9_Witness ==
  /\ IsLoaded
  /\ ReturnedBlock(calls[1])
  /\ calls[1].gets > 2
  /\ calls[2].pc = "ipv4"
  /\ calls[2].i >= 1

\* C10: the record lookupIP returns is the record the reader decoded
C10_RecordUnchanged ==
  (IsDone(last) /\ last.op = "lookupIP" /\ last.out.kind = "value") =>
    last.out.val = ReaderGet(context.reader, last.ip).val

\* The keys that make a record a City record, a Country record
HasCityKey(v) ==
  HasKey(v, "city") \/ HasKey(v, "location") \/ HasKey(v, "postal")
    \/ HasKey(v, "subdivisions")

HasCountryKey(v) == HasKey(v, "country") \/ HasKey(v, "continent")

\* C11: the type guards and the display classify a record by its keys
\* alone and alike: ASN iff it has autonomous_system_number, City iff it has
\* city, location, postal or subdivisions, Country iff it has country or
\* continent (the display shows the first of these shapes the record has)
C11_ClassifiedByKeys ==
  (view.kind = "classify" /\ view.ip # "1.1.1.1") =>
    /\ isAsnResponse(view.record) <=> HasKey(view.record, "autonomous_system_number")
    /\ isCityResponse(view.record) <=> HasCityKey(view.record)
    /\ isCountryResponse(view.record) <=> HasCountryKey(view.record)
    /\ formatLookupDataBranch(view.ip, view.data) =
         (IF HasKey(view.data, "autonomous_system_number") THEN "asn"
          ELSE IF HasCityKey(view.data) THEN "city"
          ELSE IF HasCountryKey(view.data) THEN "country"
          ELSE "Unknown")

\* An IPv4-mapped literal ::ffff:a.b.c.d and its a.b.c.d
IsMapped(ip) ==
  Len(ip) > 7 /\ SubSeq(ip, 1, 7) = "::ffff:" /\ ValidDotted(SubSeq(ip, 8, Len(ip)))

DirectOf(ip) == SubSeq(ip, 8, Len(ip))

\* C12: on an IPv6 tree that holds data for a.b.c.d, lookupIP of
\* ::ffff:a.b.c.d gives what lookupIP of a.b.c.d gives
C12_MappedSameAsDirect ==
  (IsDone(last) /\ last.op = "lookupIP" /\ IsLoaded /\ IsMapped(last.ip)
     /\ FileOf(context.reader).ip_version = 6 /\ ReachesData(DirectOf(last.ip))) =>
    last.out = RunAll[<<context, "lookupIP", DirectOf(last.ip)>>].st.out

\* The walk shown in view: its file, the bytes walked, and where it is
\* after k turns from the root
ViewFile == FileOf(view.reader)
ViewBytes == TreeBytes(ViewFile, ParseIP(view.ip))

WalkAt(k) ==
  IF k = 0 THEN [rec |-> 0, depth |-> 0]
  ELSE WalkSteps(ViewFile, ViewBytes, [rec |-> 0, depth |-> 0], k)

\* C13: the walk starts at node 0 and takes, bit by bit from the most
\* significant, the left record on 0 and the right record on 1; it goes on
\* exactly while the record is a node index, it ends within the 32 or 128
\* bits of the tree either at a data pointer or with no data, and every
\* address that shares the bits consumed ends at the same record and depth
C13_WalkStopsWithinBits ==
  view.kind = "walk" =>
    /\ view.depth <= (IF ViewFile.ip_version = 6 THEN 128 ELSE 32)
    /\ view.depth <= Len(ViewBytes) * 8
    /\ \A k \in 0..(view.depth - 1) :
         /\ WalkAt(k).depth = k
         /\ WalkAt(k).rec < NodeCount(ViewFile)
         /\ WalkAt(k + 1).rec
              = ViewFile.nodes[WalkAt(k).rec + 1][BitAt(ViewBytes, k) + 1]
    /\ WalkAt(view.depth) = [rec |-> view.rec, depth |-> view.depth]
    /\ view.depth < Len(ViewBytes) * 8 => view.rec >= NodeCount(ViewFile)
    /\ (view.rec > NodeCount(ViewFile)) <=> (view.get.st # "null")
    /\ \A x \in Literals :
         (isValidIP(x) /\ ~Incompatible(ViewFile, ParseIP(x))
            /\ SamePrefix(TreeBytes(ViewFile, ParseIP(x)), ViewBytes, view.depth)) =>
           Leaf(ViewFile, x) = [rec |-> view.rec, depth |-> view.depth]

\* A walk that ran through all 32 bits of a tree that leads nowhere, and
\* came out with no data
C13_Witness ==
  /\ view.kind = "walk"
  /\ view.reader = "FileLoop"
  /\ view.depth = 32
  /\ view.rec < NodeCount(ViewFile)
  /\ view.get.st = "null"

\* The data section decoded in view
ViewBuffer == BufferOf(view.buffer)

IsPointerAt(buf, o) ==
  /\ o >= 0
  /\ o < Len(buf)
  /\ ByteAt(buf, o) \div 32 = 1
  /\ o + 2 + ((ByteAt(buf, o) \div 8) % 4) <= Len(buf)

\* Pointers met one after the other from offset o on, counted from k and
\* no further than two past the bound
RECURSIVE PointerRun(_, _, _)
PointerRun(buf, o, k) ==
  IF k > PointerDepthBound + 1 \/ ~IsPointerAt(buf, o) THEN k
  ELSE PointerRun(buf, PointerTarget(buf, o, ByteAt(buf, o)), k + 1)

\* C14: every decode ends, with a value or a failure; where the pointers
\* from the offset lead to themselves or go on for more than the bound the
\* failure is PointerDepthExceeded, and it is given in no other case
C14_PointerChainsEnd ==
  view.kind = "decode" =>
    /\ view.out.st \in {"ok", "error"}
    /\ (view.out = DecodeFails("PointerDepthExceeded"))
         <=> (PointerRun(ViewBuffer, view.offset, 0) > PointerDepthBound)

\* The decode of a pointer to itself has ended with PointerDepthExceeded
C14_Witness ==
  /\ view.kind = "decode"
  /\ view.buffer = "self"
  /\ view.offset = 0
  /\ view.out = DecodeFails("PointerDepthExceeded")

Str(bytes) == [t |-> "str", bytes |-> bytes]

\* C15: a pointer decodes to the value at its target and to the offset
\* right after its own bytes, so the elements of a Map or an Array after a
\* pointer-valued one are the ones encoded after the pointer
C15_OffsetAfterPointer ==
  view.kind = "decode" =>
    /\ (IsPointerAt(ViewBuffer, view.offset) /\ view.out.st = "ok") =>
         /\ view.out.next = view.offset + 2 + ((ByteAt(ViewBuffer, view.offset) \div 8) % 4)
         /\ view.out.val
              = Decode(ViewBuffer,
                       PointerTarget(ViewBuffer, view.offset,
                                     ByteAt(ViewBuffer, view.offset)), 0).val
    /\ (view.buffer = "mapPointer" /\ view.offset = 0) =>
         view.out = Decoded([t |-> "map",
                             kv |-> << <<Str(<<97>>), Str(<<120, 121, 122>>)>>,
                                       <<Str(<<98>>), [t |-> "num", n |-> 7]>> >>], 9)
    /\ (view.buffer = "mapPointerBack" /\ view.offset = 4) =>
         view.out = Decoded([t |-> "map",
                             kv |-> << <<Str(<<97>>), Str(<<120, 121, 122>>)>>,
                                       <<Str(<<98>>), [t |-> "num", n |-> 7]>> >>], 13)
    /\ (view.buffer = "arrayPointer" /\ view.offset = 0) =>
         view.out = Decoded([t |-> "array",
                             items |-> <<Str(<<120, 121, 122>>), [t |-> "num", n |-> 9]>>], 6)

\* A Map whose first value is a pointer to a string in front of the Map has
\* been decoded to its end
C15_Witness ==
  /\ view.kind = "decode"
  /\ view.buffer = "mapPointerBack"
  /\ view.offset = 4
  /\ view.out.st = "ok"
  /\ view.out.next = 13

\* For the latest call, a dotted quad with a record: the target string, the
\* network address of prefix length p, the address with bit p flipped, and
\* how the lookups of the two compare with the target
LastTarget == JSONStringify(ReaderGet(context.reader, last.ip).val)
LastInt == ToInt32(IpInt(last.ip))
NetworkAt(p) == DottedQuad(BitAnd(LastInt, MaskFor(p)))
FlippedAt(p) == DottedQuad(BitXor(LastInt, ShiftLeft(1, 32 - p)))
NetworkProbe(p) == Probe(context.reader, NetworkAt(p), LastTarget)
FlippedProbe(p) == Probe(context.reader, FlippedAt(p), LastTarget)

\* A search of findIPv4CIDRBlock that returned a block, none of its lookups
\* raising
SearchedV4 ==
  /\ ReturnedBlock(last)
  /\ ValidDotted(last.ip)
  /\ HasRecord(last.ip)
  /\ ~last.raised

\* C16: at every prefix length p the search reached where the network
\* address gives data other than the target, the address with bit p flipped
\* is looked up as well, and N/p is returned if it gives other data or its
\* lookup fails
C16_FlippedBitProbed ==
  SearchedV4 =>
    /\ last.gets = 1 + BlockPrefix(last.out.val)
                     + Cardinality({p \in 1..BlockPrefix(last.out.val) :
                                      NetworkProbe(p) = "differs"})
    /\ \A p \in 1..BlockPrefix(last.out.val) :
         (NetworkProbe(p) = "differs" /\ FlippedProbe(p) \in {"differs", "raised"}) =>
           last.out.val = CidrString(NetworkAt(p), p)

ReportedOnV4Tree ==
  /\ ReturnedBlock(last)
  /\ ValidDotted(last.ip)
  /\ HasRecord(last.ip)
  /\ FileOf(context.reader).ip_version = 4
  /\ LeafDepth(last.ip) >= 1

\* C18: on an IPv4 tree, for an address with a record whose leaf is at depth
\* d >= 1, the prefix length findIPv4CIDRBlock reports is at most d: the
\* block is as wide as the tree block that holds the address, or wider
C18_NeverNarrowerThanLeaf ==
  ReportedOnV4Tree => BlockPrefix(last.out.val) \in 1..LeafDepth(last.ip)

\* A reported block wider than the leaf that holds the address
C18_Witness ==
  /\ ReportedOnV4Tree
  /\ BlockPrefix(last.out.val) < LeafDepth(last.ip)

\* A block returned for an address written with colons and no dot that has
\* a record
ReportedV6 ==
  /\ ReturnedBlock(last)
  /\ Includes(last.ip, ":")
  /\ ~Includes(last.ip, ".")
  /\ HasRecord(last.ip)

\* The first four groups between the colons of ip, or all when there are fewer
FirstGroups(ip) ==
  SubSeq(Split(ip, ":"), 1, IF Len(Split(ip, ":")) < 4 THEN Len(Split(ip, ":")) ELSE 4)

Range(net, len, text) == [net |-> net, len |-> len, text |-> text]

ReservedV4 ==
  {Range(<<10, 0, 0, 0>>, 8, "This is a private IP address (RFC 1918: 10.0.0.0/8) and is not routed on the internet."),
   Range(<<172, 16, 0, 0>>, 12, "This is a private IP address (RFC 1918: 172.16.0.0/12) and is not routed on the internet."),
   Range(<<192, 168, 0, 0>>, 16, "This is a private IP address (RFC 1918: 192.168.0.0/16) and is not routed on the internet."),
   Range(<<0, 0, 0, 0>>, 8, "This is a 'this network' address (RFC 5735: 0.0.0.0/8) used for network configuration."),
   Range(<<127, 0, 0, 0>>, 8, "This is a loopback address (RFC 5735: 127.0.0.0/8) used for local host communication."),
   Range(<<169, 254, 0, 0>>, 16, "This is a link-local address (RFC 5735: 169.254.0.0/16) used for automatic IP configuration."),
   Range(<<224, 0, 0, 0>>, 24, "This is a local network control block address (RFC 5735: 224.0.0.0/24) used for multicast."),
   Range(<<224, 0, 0, 0>>, 4, "This is a multicast address (RFC 5735: 224.0.0.0/4) used for group communication."),
   Range(<<240, 0, 0, 0>>, 4, "This is a reserved address (RFC 5735: 240.0.0.0/4) for future use."),
   Range(<<169, 254, 0, 0>>, 16, "This is a link-local address (RFC 3927: 169.254.0.0/16) used for automatic IP configuration."),
   Range(<<100, 64, 0, 0>>, 10, "This is a shared address space (RFC 6598: 100.64.0.0/10) used by carriers for NAT."),
   Range(<<192, 0, 2, 0>>, 24, "This is a documentation address (RFC 5737: 192.0.2.0/24) used in examples and documentation."),
   Range(<<198, 51, 100, 0>>, 24, "This is a documentation address (RFC 5737: 198.51.100.0/24) used in examples and documentation."),
   Range(<<203, 0, 113, 0>>, 24, "This is a documentation address (RFC 5737: 203.0.113.0/24) used in examples and documentation."),
   Range(<<192, 88, 99, 0>>, 24, "This is a 6to4 relay anycast address (RFC 3068: 192.88.99.0/24) used for IPv6 transition."),
   Range(<<198, 18, 0, 0>>, 15, "This is a benchmarking address (RFC 2544: 198.18.0.0/15) used for network testing."),
   Range(<<255, 255, 255, 255>>, 32, "This is the limited broadcast address (255.255.255.255) used for network broadcasts.")}

\* The listed ranges that hold ip, and the most specific among them
Holding(ip) == {r \in ReservedV4 : SamePrefix(ParseIPv4(ip), r.net, r.len)}
MostSpecific(ip) == {r \in Holding(ip) : \A q \in Holding(ip) : q.len <= r.len}

\* C20: for a dotted quad, getIPRangeDescription gives the text of the most
\* specific listed range that holds the address, and null exactly when no
\* listed range holds it
C20_MostSpecificRange ==
  (view.kind = "describe" /\ ValidDotted(view.ip)) =>
    IF Holding(view.ip) = {} THEN view.out = ReturnsNull
    ELSE \E r \in MostSpecific(view.ip) : view.out = Returns(r.text)

\* The list of results the App shows, and the step of a lookup that ran to
\* its end (the guards of handleLookup passed)
Results == app.lookupResults
LookupCompletes == nLookups' = nLookups + 1

\* The first n entries of a list, or all when it has fewer
FirstOf(list, n) == SubSeq(list, 1, IF Len(list) < n THEN Len(list) ELSE n)

\* C21: the list of lookup results never holds more than 10 entries; every
\* lookup that completes, with data, without or with an error, puts its
\* result at the head, and behind it stand the 9 most recent results of
\* before (all of them when there were fewer), in the order they had
C21_NewestFirstAtMostTen ==
  /\ [](Len(Results) <= 10)
  /\ [][LookupCompletes =>
          /\ Len(Results') >= 1
          /\ Results'[1].dataset = app.selectedDataset.name
          /\ Results'[1].ip \in {trim(x) : x \in AppInputs} \ {""}
          /\ Tail(Results') = FirstOf(Results, 9)]_vars

\* A full list after more than ten lookups, the oldest results dropped, with
\* a result that has data and one that is an error in it
C21_Witness ==
  /\ Len(Results) = 10
  /\ nLookups > 10
  /\ \E i \in 1..10 : Results[i].error # None
  /\ \E i \in 1..10 : Results[i].data.kind = "value"
  /\ Results[1] # Results[10]

\* A load is shown as going on; the step at which it stops being shown so;
\* the latest call of loadDataset raised and no load is going on
IsLoading == app.loadingState.isLoading
LoadingStops == IsLoading /\ ~IsLoading'
LoadFailed == app.ended.kind = "failed" /\ ~IsLoading

\* C22: a load that is started ends, isLoading false again, and at that step
\* isDatasetLoaded is true exactly when loadDataset returned a context; when
\* it raised instead (the fetch, the reading or the Reader failed) the error
\* starts with "Failed to load MMDB dataset:" and the context held before is
\* kept as it was; after a failed load the button of every dataset, the one
\* that failed included, is enabled and a click on it starts a new load
C22_LoadsEnd ==
  /\ IsLoading ~> ~IsLoading
  /\ [][LoadingStops =>
          /\ app'.isDatasetLoaded <=> app'.ended.out.kind = "value"
          /\ app'.ended.out.kind # "value" =>
               /\ app'.ended.out.kind = "error"
               /\ startsWith(app'.ended.out.msg, "Failed to load MMDB dataset: ")
               /\ context' = context]_vars
  /\ [](LoadFailed =>
          \A d \in AVAILABLE_DATASETS :
            /\ ~DatasetButtonDisabled(app)
            /\ handleDatasetSelect(app, d).loadingState.isLoading
            /\ LoadStart(d) \in handleDatasetSelect(app, d).loads)

\* A load that failed while the context of an earlier load is held
C22_Witness ==
  /\ LoadFailed
  /\ ~app.isDatasetLoaded
  /\ context.reader # nullReader
  /\ context.dataset # app.selectedDataset

\* The context the App holds is the one of the dataset selected
HoldsSelected ==
  /\ context.dataset = app.selectedDataset
  /\ context.dataset \in AVAILABLE_DATASETS
  /\ context.reader # nullReader

\* C23: whatever datasets were selected, their loads succeeding or failing,
\* and whatever was looked up, while isDatasetLoaded is true the context
\* holds the selected dataset and a reader; a lookup runs only then, so the
\* result it adds carries the name of the dataset whose reader answered it
C23_SelectedDatasetAnswers ==
  /\ [](app.isDatasetLoaded => HoldsSelected)
  /\ [][LookupCompletes =>
          /\ app.isDatasetLoaded
          /\ HoldsSelected
          /\ context' = context
          /\ Results'[1].dataset = context.dataset.name]_vars

\* A lookup answered with data by the reader of the dataset selected
C23_Witness ==
  /\ app.isDatasetLoaded
  /\ HoldsSelected
  /\ Len(Results) >= 1
  /\ Results[1].data.kind = "value"
  /\ Results[1].dataset = "GeoLite2-Country"

====
